---- MODULE Spec2Model ----
(***************************************************************************)
(* Transaction categorization chain (strategy.py, chain.py), budget        *)
(* threshold evaluation (models.py), the transaction event bus and the     *)
(* budget alert subscriber (observer.py, factory.py) and rule loading      *)
(* (strategy.py) of the personal finance manager.                          *)
(*                                                                         *)
(* Strings are sequences of one-character strings, so that lower-casing    *)
(* and substring search are computed as str.lower() and `in` compute them. *)
(* Money is counted in cents; Decimal fractions (alert_threshold, adapter  *)
(* confidence) are counted in hundredths.                                  *)
(***************************************************************************)
EXTENDS Integers, Sequences, FiniteSets, TLC

VARIABLES
    keywords,         \* KeywordStrategy.keywords: insertion-ordered dict
    merchants,        \* MerchantStrategy.merchants: insertion-ordered dict
    ranges,           \* AmountRangeStrategy.ranges: list of triples
    llm_adapter,      \* LLMStrategy.llm_adapter (NoAdapter = None)
    rule_strategies,  \* CategorizationChainBuilder._rule_strategies
    llm_strategy,     \* CategorizationChainBuilder._llm_strategy
    instantiated,     \* handler objects created by build()
    next_handler,     \* CategorizationHandler._next_handler of each handler
    head,             \* the handler build() returned
    rule_handler,     \* RuleBasedHandler.strategies (shared with the builder or own)
    ai_llm_strategy,  \* AIHandler.llm_strategy
    stage,            \* the handler whose handle() is running, IDLE or DONE
    txn,              \* the transaction being handled
    result,           \* what the outermost handle() returned
    process_log,      \* the process() calls of this handle(), with their results
    classify_calls,   \* calls of llm_adapter.classify during this handle()
    returned,         \* number of results the outermost handle() returned
    raised,           \* an exception escaped handle()
    budget,           \* the Budget under evaluation
    evaluations,      \* check_threshold calls on budget, most recent last
    observer_cfg,     \* BudgetAlertObserver: which collaborators are not None
    period_spending,  \* what the transactions of the budget's category sum to
    sink,             \* the alerts notification_service.send_alert received
    events_handled,   \* on_transaction_* calls the subscriber has handled
    last_event,       \* the most recent on_transaction_* call and what it did
    observers,        \* TransactionSubject._observers
    behaviour,        \* what each observer's handlers do when called
    fanout,           \* the notify_* call: its event, the position of its loop
    invoked,          \* the handler calls of the most recent notify_*, in order
    last_op,          \* the most recent attach / detach call
    loaded,           \* the rule list each strategy's load_rules was last given
    loading,          \* the load_rules call in progress: its rules, its position
    reading,          \* the categorize call in progress: its dict iterator
    cat_outcome,      \* what the most recent strategy categorize call came to
    history,          \* what the first handle() of each transaction came to
    last_call,        \* the most recent call on a factory, cache observer or entity
    cache_service,    \* AnalyticsCacheObserver.cache_service is not None
    transaction,      \* a Transaction object shared between threads
    account           \* an Account object

chainVars == <<keywords, merchants, ranges, llm_adapter, rule_strategies,
               llm_strategy, instantiated, next_handler, head, rule_handler,
               ai_llm_strategy, stage, txn, result, process_log,
               classify_calls, returned, raised>>

thresholdVars == <<budget, evaluations>>

alertVars == <<observer_cfg, period_spending, sink, events_handled, last_event>>

busVars == <<observers, behaviour, fanout, invoked, last_op>>

rulesVars == <<loaded, loading, reading, cat_outcome>>

entityVars == <<last_call, cache_service, transaction, account>>

otherVars == <<alertVars, busVars, rulesVars, history, entityVars>>

vars == <<chainVars, thresholdVars, otherVars>>

(***************************************************************************)
(* Bounds                                                                  *)
(***************************************************************************)
MaxRuleStrategies == 3

MaxAmount == 10

MaxSpending == 12

MaxEvents == 3

(***************************************************************************)
(* Values                                                                  *)
(***************************************************************************)
Null == "NULL"                       \* Python None as a category id

Absent == [kind |-> "absent"]        \* Optional[CategoryResult] = None

NoAdapter == [kind |-> "no_adapter"]

NoHandler == "NO_HANDLER"

NoStrategy == "NO_STRATEGY"

NoTxn == [kind |-> "no_txn"]

NotYet == [kind |-> "not_yet"]

Handlers == {"RULE", "AI", "MANUAL"}

\* CategoryResult(category_id, confidence, method, requires_manual)
CategoryResult(c, conf, m, manual) ==
    [kind |-> "result", category_id |-> c, confidence |-> conf,
     method |-> m, requires_manual |-> manual]

\* Python truthiness of `result and result.category_id`: the result is not
\* None and its category_id is neither None nor the empty string
Truthy(r) == r # Absent /\ r.category_id \notin {Null, ""}

(***************************************************************************)
(* str.lower() and the substring test `k in s`                             *)
(***************************************************************************)
LowerChar(ch) ==
    CASE ch = "A" -> "a"
      [] ch = "B" -> "b"
      [] ch = "M" -> "m"
      [] OTHER -> ch

Lower(s) == [i \in 1..Len(s) |-> LowerChar(s[i])]

Contains(s, k) ==
    \E i \in 0..(Len(s) - Len(k)) : SubSeq(s, i + 1, i + Len(k)) = k

Abs(n) == IF n < 0 THEN -n ELSE n

MinOf(S) == CHOOSE i \in S : \A j \in S : i <= j

(***************************************************************************)
(* Inputs                                                                  *)
(***************************************************************************)
\* Tables as add_keyword / add_merchant / add_range leave them (keys are
\* stored lower-cased).  Whether a table matches depends on the transaction;
\* a chain without rules is a builder given no strategy.
KeywordTables ==
    { << [key |-> <<"a", "b">>, category_id |-> "cat_kw"] >>,
      << [key |-> <<"a", "b">>, category_id |-> Null] >>,
      << [key |-> <<"b">>, category_id |-> "cat_b"],
         [key |-> <<"a", "b">>, category_id |-> "cat_kw"] >> }

MerchantTables ==
    { << [key |-> <<"m">>, category_id |-> "cat_mer"] >> }

RangeTables ==
    { << [min |-> 100, max |-> 1000, category_id |-> "cat_amt"] >> }

\* What the injected adapter's classify does: raise, return no prediction,
\* or return a prediction (category_id, confidence in hundredths).
Adapters ==
    { NoAdapter,
      [kind |-> "raises"],
      [kind |-> "no_prediction"],
      [kind |-> "prediction", category_id |-> "cat_ai", confidence |-> 69],
      [kind |-> "prediction", category_id |-> "cat_ai", confidence |-> 70],
      [kind |-> "prediction", category_id |-> Null, confidence |-> 90],
      [kind |-> "prediction", category_id |-> "", confidence |-> 100] }

\* Transaction(description, merchant_name, amount), not yet classified:
\* category_id, confidence and categorization_method at their defaults
Unclassified(description, merchant_name, amount) ==
    [description |-> description, merchant_name |-> merchant_name, amount |-> amount,
     category_id |-> Null, confidence |-> "LOW", categorization_method |-> ""]

Transactions ==
    { Unclassified(<<"A", "B", "x">>, <<"M">>, -5000),
      Unclassified(<<"x">>, <<"x", "M">>, 50),
      Unclassified(<<"x">>, <<"x">>, -100),
      Unclassified(<<"x">>, <<>>, 1001) }

(***************************************************************************)
(* Strategies (strategy.py)                                                *)
(***************************************************************************)
ConfidenceThreshold == 70

\* KeywordStrategy.categorize that walks the table from its other end once
\* the transaction has been handled before
KeywordStrategy_categorize_unordered(t) ==
    LET description == Lower(t.description)
        hits == {i \in 1..Len(keywords) : Contains(description, keywords[i].key)}
        first == IF history[t] = NotYet THEN MinOf(hits)
                 ELSE CHOOSE i \in hits : \A j \in hits : j <= i
    IN  IF hits = {} THEN Absent
        ELSE CategoryResult(keywords[first].category_id, "HIGH", "keyword_rule", FALSE)

\* KeywordStrategy.categorize that compares the description as written
KeywordStrategy_categorize_cased(t) ==
    LET description == t.description
        hits == {i \in 1..Len(keywords) : Contains(description, keywords[i].key)}
    IN  IF hits = {} THEN Absent
        ELSE CategoryResult(keywords[MinOf(hits)].category_id, "HIGH",
                            "keyword_rule", FALSE)

\* AmountRangeStrategy.categorize that excludes the upper bound of a range
AmountRangeStrategy_categorize_halfopen(t) ==
    LET amount == Abs(t.amount)
        hits == {i \in 1..Len(ranges) :
                    ranges[i].min <= amount /\ amount < ranges[i].max}
    IN  IF hits = {} THEN Absent
        ELSE CategoryResult(ranges[MinOf(hits)].category_id, "MEDIUM",
                            "amount_rule", FALSE)

\* KeywordStrategy.categorize
KeywordStrategy_categorize(t) ==
    LET description == Lower(t.description)
        hits == {i \in 1..Len(keywords) : Contains(description, keywords[i].key)}
    IN  IF hits = {} THEN Absent
        ELSE CategoryResult(keywords[MinOf(hits)].category_id, "HIGH",
                            "keyword_rule", FALSE)

\* MerchantStrategy.categorize
MerchantStrategy_categorize(t) ==
    LET merchant == Lower(t.merchant_name)
        hits == {i \in 1..Len(merchants) : Contains(merchant, merchants[i].key)}
    IN  IF hits = {} THEN Absent
        ELSE CategoryResult(merchants[MinOf(hits)].category_id, "HIGH",
                            "merchant_rule", FALSE)

\* AmountRangeStrategy.categorize
AmountRangeStrategy_categorize(t) ==
    LET amount == Abs(t.amount)
        hits == {i \in 1..Len(ranges) :
                    ranges[i].min <= amount /\ amount <= ranges[i].max}
    IN  IF hits = {} THEN Absent
        ELSE CategoryResult(ranges[MinOf(hits)].category_id, "MEDIUM",
                            "amount_rule", FALSE)

\* LLMStrategy.categorize without the try/except around the adapter call
LLMStrategy_categorize_nocatch(t) ==
    IF llm_adapter = NoAdapter
    THEN [value |-> Absent, calls |-> 0, raised |-> FALSE]
    ELSE IF llm_adapter.kind = "raises"
    THEN [value |-> Absent, calls |-> 1, raised |-> TRUE]
    ELSE IF llm_adapter.kind = "prediction"
            /\ llm_adapter.confidence >= ConfidenceThreshold
    THEN [value |-> CategoryResult(llm_adapter.category_id, "MEDIUM", "llm", FALSE),
          calls |-> 1, raised |-> FALSE]
    ELSE [value |-> Absent, calls |-> 1, raised |-> FALSE]

\* LLMStrategy.categorize that accepts only scores above the threshold
LLMStrategy_categorize_exclusive(t) ==
    IF llm_adapter = NoAdapter
    THEN [value |-> Absent, calls |-> 0, raised |-> FALSE]
    ELSE IF llm_adapter.kind = "raises"
    THEN [value |-> Absent, calls |-> 1, raised |-> FALSE]
    ELSE IF llm_adapter.kind = "prediction"
            /\ llm_adapter.confidence > ConfidenceThreshold
    THEN [value |-> CategoryResult(llm_adapter.category_id, "MEDIUM", "llm", FALSE),
          calls |-> 1, raised |-> FALSE]
    ELSE [value |-> Absent, calls |-> 1, raised |-> FALSE]

\* LLMStrategy.categorize: value is the returned Optional[CategoryResult],
\* calls the number of classify calls made, raised whether an exception
\* left the method.
LLMStrategy_categorize(t) ==
    IF llm_adapter = NoAdapter
    THEN [value |-> Absent, calls |-> 0, raised |-> FALSE]
    ELSE IF llm_adapter.kind = "raises"
    THEN [value |-> Absent, calls |-> 1, raised |-> FALSE]
    ELSE IF llm_adapter.kind = "prediction"
            /\ llm_adapter.confidence >= ConfidenceThreshold
    THEN [value |-> CategoryResult(llm_adapter.category_id, "MEDIUM", "llm", FALSE),
          calls |-> 1, raised |-> FALSE]
    ELSE [value |-> Absent, calls |-> 1, raised |-> FALSE]

\* strategy.categorize(transaction) for a rule strategy object
Strategy_categorize(s, t) ==
    CASE s = "keyword"  -> KeywordStrategy_categorize(t)
      [] s = "merchant" -> MerchantStrategy_categorize(t)
      [] s = "amount"   -> AmountRangeStrategy_categorize(t)

(***************************************************************************)
(* Handlers (chain.py)                                                     *)
(***************************************************************************)
\* RuleBasedHandler.strategies: the builder's list object when build() passed
\* a non-empty list (`strategies or []`), otherwise the handler's own list.
HandlerStrategies ==
    IF rule_handler.shared THEN rule_strategies ELSE rule_handler.own

\* RuleBasedHandler.process that returns the first result that is not None
RuleBasedHandler_process_nonabsent(t) ==
    LET strategies == HandlerStrategies
        hits == {i \in 1..Len(strategies) :
                    Strategy_categorize(strategies[i], t) # Absent}
    IN  [value |-> IF hits = {} THEN Absent
                   ELSE Strategy_categorize(strategies[MinOf(hits)], t),
         calls |-> 0, raised |-> FALSE]

\* The strategies the loop of RuleBasedHandler.process calls categorize on:
\* all up to the first whose result has a category, which it returns
RuleBasedHandler_evaluated(t) ==
    LET strategies == HandlerStrategies
        hits == {i \in 1..Len(strategies) :
                    Truthy(Strategy_categorize(strategies[i], t))}
    IN  IF hits = {} THEN strategies ELSE SubSeq(strategies, 1, MinOf(hits))

\* RuleBasedHandler.process
RuleBasedHandler_process(t) ==
    LET strategies == HandlerStrategies
        hits == {i \in 1..Len(strategies) :
                    Truthy(Strategy_categorize(strategies[i], t))}
    IN  [value |-> IF hits = {} THEN Absent
                   ELSE Strategy_categorize(strategies[MinOf(hits)], t),
         calls |-> 0, raised |-> FALSE]

\* AIHandler.process without the `if self.llm_strategy` guard: calling
\* categorize on None raises
AIHandler_process_noguard(t) ==
    IF ai_llm_strategy # NoStrategy
    THEN LET r == LLMStrategy_categorize(t)
         IN  IF Truthy(r.value) THEN r ELSE [r EXCEPT !.value = Absent]
    ELSE [value |-> Absent, calls |-> 0, raised |-> TRUE]

\* AIHandler.process
AIHandler_process(t) ==
    IF ai_llm_strategy # NoStrategy
    THEN LET r == LLMStrategy_categorize(t)
         IN  IF Truthy(r.value) THEN r ELSE [r EXCEPT !.value = Absent]
    ELSE [value |-> Absent, calls |-> 0, raised |-> FALSE]

\* ManualHandler.process
ManualHandler_process(t) ==
    [value |-> CategoryResult(Null, "LOW", "manual_required", TRUE),
     calls |-> 0, raised |-> FALSE]

\* self.process(transaction), dispatched on the handler's class
Process(h, t) ==
    CASE h = "RULE"   -> RuleBasedHandler_process(t)
      [] h = "AI"     -> AIHandler_process(t)
      [] h = "MANUAL" -> ManualHandler_process(t)

\* The end-of-chain result built with the dataclass default requires_manual
EndOfChainResult_default == CategoryResult(Null, "LOW", "none", FALSE)

\* CategorizationHandler.handle, end of chain
EndOfChainResult == CategoryResult(Null, "LOW", "none", TRUE)

(***************************************************************************)
(* Initial state: strategies loaded, adapter injected, a fresh builder     *)
(***************************************************************************)
InitChain ==
    /\ keywords \in KeywordTables
    /\ merchants \in MerchantTables
    /\ ranges \in RangeTables
    /\ llm_adapter \in Adapters
    /\ rule_strategies = <<>>
    /\ llm_strategy = NoStrategy
    /\ instantiated = {}
    /\ next_handler = [h \in Handlers |-> NoHandler]
    /\ head = NoHandler
    /\ rule_handler = [shared |-> FALSE, own |-> <<>>]
    /\ ai_llm_strategy = NoStrategy
    /\ stage = "IDLE"
    /\ txn = NoTxn
    /\ result = Absent
    /\ process_log = <<>>
    /\ classify_calls = 0
    /\ returned = 0
    /\ raised = FALSE

walkVars == <<stage, txn, result, process_log, classify_calls, returned, raised>>

tableVars == <<keywords, merchants, ranges, llm_adapter>>

builtVars == <<instantiated, next_handler, head, rule_handler, ai_llm_strategy>>

(***************************************************************************)
(* CategorizationChainBuilder                                              *)
(***************************************************************************)
\* with_keyword_strategy / with_merchant_strategy / with_amount_strategy
WithRuleStrategy(s) ==
    /\ stage = "IDLE"
    /\ Len(rule_strategies) < MaxRuleStrategies
    /\ rule_strategies' = Append(rule_strategies, s)
    /\ UNCHANGED <<llm_strategy, tableVars, builtVars, walkVars, thresholdVars, otherVars>>

with_keyword_strategy == WithRuleStrategy("keyword")

with_merchant_strategy == WithRuleStrategy("merchant")

with_amount_strategy == WithRuleStrategy("amount")

with_llm_strategy ==
    /\ stage = "IDLE"
    /\ llm_strategy' = "llm"
    /\ UNCHANGED <<rule_strategies, tableVars, builtVars, walkVars, thresholdVars, otherVars>>

\* set_next wired so that the manual handler delegates back to the rule handler
BuildLinks_cycle == [h \in Handlers |->
                      CASE h = "RULE"   -> "AI"
                        [] h = "AI"     -> "MANUAL"
                        [] h = "MANUAL" -> "RULE"]

\* The links build() makes: rule_handler.set_next(ai_handler).set_next(manual_handler)
BuildLinks == [h \in Handlers |->
                CASE h = "RULE"   -> "AI"
                  [] h = "AI"     -> "MANUAL"
                  [] h = "MANUAL" -> NoHandler]

\* The handler objects build() creates
BuildHandlers == {"RULE", "AI", "MANUAL"}

\* CategorizationChainBuilder.build; the chain followed here is the first one
\* the builder returns
build ==
    /\ stage = "IDLE"
    /\ head = NoHandler
    /\ instantiated' = BuildHandlers
    /\ rule_handler' = [shared |-> rule_strategies # <<>>, own |-> <<>>]
    /\ ai_llm_strategy' = llm_strategy
    /\ next_handler' = BuildLinks
    /\ head' = "RULE"
    /\ UNCHANGED <<rule_strategies, llm_strategy, tableVars, walkVars, thresholdVars, otherVars>>

(***************************************************************************)
(* CategorizationHandler.handle, one handler's body per step               *)
(***************************************************************************)
\* chain.handle(transaction) is called on the built chain
handle_call ==
    /\ stage = "IDLE"
    /\ head # NoHandler
    /\ \E t \in Transactions : txn' = t
    /\ stage' = head
    /\ result' = Absent
    /\ process_log' = <<>>
    /\ classify_calls' = 0
    /\ returned' = 0
    /\ raised' = FALSE
    /\ UNCHANGED <<rule_strategies, llm_strategy, tableVars, builtVars, thresholdVars, otherVars>>

\* handle() that delegates to the next handler before looking at its own result
HandleBody_delegatefirst(h, p) ==
    IF p.raised
    THEN [stage |-> "DONE", result |-> Absent, returned |-> 0, raised |-> TRUE]
    ELSE IF next_handler[h] # NoHandler
    THEN [stage |-> next_handler[h], result |-> Absent, returned |-> 0, raised |-> FALSE]
    ELSE IF Truthy(p.value)
    THEN [stage |-> "DONE", result |-> p.value, returned |-> 1, raised |-> FALSE]
    ELSE [stage |-> "DONE", result |-> EndOfChainResult, returned |-> 1, raised |-> FALSE]

\* What self.process(transaction) of handler h did: its result and, for the
\* rule stage, the strategies it held and those it called categorize on
Processed(h, t, p) ==
    [handler |-> h, value |-> p.value,
     strategies |-> IF h = "RULE" THEN HandlerStrategies ELSE <<>>,
     evaluated |-> IF h = "RULE" THEN RuleBasedHandler_evaluated(t) ELSE <<>>]

\* What handle() of handler h does with the outcome p of self.process:
\* the stage it moves to and the result it returns, if any.
HandleBody(h, p) ==
    IF p.raised
    THEN [stage |-> "DONE", result |-> Absent, returned |-> 0, raised |-> TRUE]
    ELSE IF Truthy(p.value)
    THEN [stage |-> "DONE", result |-> p.value, returned |-> 1, raised |-> FALSE]
    ELSE IF next_handler[h] # NoHandler
    THEN [stage |-> next_handler[h], result |-> Absent, returned |-> 0, raised |-> FALSE]
    ELSE [stage |-> "DONE", result |-> EndOfChainResult, returned |-> 1, raised |-> FALSE]

\* handle() that stores the classification on the transaction it returns
\* a result for
handle_applying ==
    /\ stage \in Handlers
    /\ LET p == Process(stage, txn)
           b == HandleBody(stage, p)
       IN  /\ process_log' = Append(process_log, Processed(stage, txn, p))
           /\ classify_calls' = classify_calls + p.calls
           /\ stage' = b.stage
           /\ result' = b.result
           /\ returned' = returned + b.returned
           /\ raised' = b.raised
           /\ txn' = IF b.returned = 1
                     THEN [txn EXCEPT !.category_id = b.result.category_id,
                                      !.confidence = b.result.confidence,
                                      !.categorization_method = b.result.method]
                     ELSE txn
    /\ UNCHANGED <<rule_strategies, llm_strategy, tableVars, builtVars, thresholdVars, otherVars>>

\* CategorizationHandler.handle of the handler at `stage`
handle ==
    /\ stage \in Handlers
    /\ LET p == Process(stage, txn)
           b == HandleBody(stage, p)
       IN  /\ process_log' = Append(process_log, Processed(stage, txn, p))
           /\ classify_calls' = classify_calls + p.calls
           /\ stage' = b.stage
           /\ result' = b.result
           /\ returned' = returned + b.returned
           /\ raised' = b.raised
    /\ UNCHANGED <<txn, rule_strategies, llm_strategy, tableVars, builtVars, thresholdVars, otherVars>>

\* The caller takes the result; the chain is ready for the next transaction
handle_return ==
    /\ stage = "DONE"
    /\ stage' = "IDLE"
    /\ txn' = NoTxn
    /\ result' = Absent
    /\ process_log' = <<>>
    /\ classify_calls' = 0
    /\ returned' = 0
    /\ raised' = FALSE
    /\ UNCHANGED <<rule_strategies, llm_strategy, tableVars, builtVars, thresholdVars, otherVars>>

(***************************************************************************)
(* Budget.check_threshold (models.py)                                      *)
(***************************************************************************)
NoAlert == "NONE"

AlertTypes == {"WARNING_80", "WARNING_90", "EXCEEDED"}

DefaultAlertThreshold == 80

ExceededAt == 100

Warning90At == 90

\* The budget of the tests: amount 500.00
SampleBudgetAmount == 50000

\* Decimal division: the quotient as the exact fraction num/den.  The
\* Decimal context keeps 28 significant digits, which decides every
\* comparison below exactly for amounts of this size.
\* Dividing by zero raises (error).
DecimalDiv(a, b) == [num |-> a, den |-> b, error |-> b = 0]

\* percentage >= Decimal(h / 100)
DecimalGE(p, h) ==
    IF p.den > 0 THEN p.num * 100 >= h * p.den ELSE p.num * 100 <= h * p.den

\* What a check_threshold call did: the verdict returned, whether the
\* division was evaluated, whether it raised (division by zero).
Outcome(v, divided, error) == [verdict |-> v, divided |-> divided, error |-> error]

\* percentage > Decimal(h / 100)
DecimalGT(p, h) ==
    IF p.den > 0 THEN p.num * 100 > h * p.den ELSE p.num * 100 < h * p.den

\* The branches with exclusive comparisons
Severity_exclusive(b, percentage) ==
    IF DecimalGT(percentage, ExceededAt) THEN "EXCEEDED"
    ELSE IF DecimalGT(percentage, Warning90At) THEN "WARNING_90"
    ELSE IF DecimalGT(percentage, b.alert_threshold) THEN "WARNING_80"
    ELSE NoAlert

\* percentage <= Decimal(h / 100)
DecimalLE(p, h) ==
    IF p.den > 0 THEN p.num * 100 <= h * p.den ELSE p.num * 100 >= h * p.den

\* The branches with the WARNING_90 comparison turned around
Severity_flipped(b, percentage) ==
    IF DecimalGE(percentage, ExceededAt) THEN "EXCEEDED"
    ELSE IF DecimalLE(percentage, Warning90At) THEN "WARNING_90"
    ELSE IF DecimalGE(percentage, b.alert_threshold) THEN "WARNING_80"
    ELSE NoAlert

\* The branches after the division
Severity(b, percentage) ==
    IF DecimalGE(percentage, ExceededAt) THEN "EXCEEDED"
    ELSE IF DecimalGE(percentage, Warning90At) THEN "WARNING_90"
    ELSE IF DecimalGE(percentage, b.alert_threshold) THEN "WARNING_80"
    ELSE NoAlert

\* check_threshold whose guard lets a zero amount through
check_threshold_zero(b, current_spending) ==
    IF b.amount < 0
    THEN Outcome(NoAlert, FALSE, FALSE)
    ELSE LET percentage == DecimalDiv(current_spending, b.amount)
         IN  IF percentage.error
             THEN Outcome(NoAlert, TRUE, TRUE)
             ELSE Outcome(Severity(b, percentage), TRUE, FALSE)

\* Budget.check_threshold
check_threshold(b, current_spending) ==
    IF b.amount <= 0
    THEN Outcome(NoAlert, FALSE, FALSE)
    ELSE LET percentage == DecimalDiv(current_spending, b.amount)
         IN  IF percentage.error
             THEN Outcome(NoAlert, TRUE, TRUE)
             ELSE Outcome(Severity(b, percentage), TRUE, FALSE)

Amounts == (-1..MaxAmount) \cup {SampleBudgetAmount}

AlertThresholds == {-10, 0, 50, DefaultAlertThreshold, 85, 95, 120}

Budgets == [amount : Amounts, alert_threshold : AlertThresholds]

Spendings == (-1..MaxSpending) \cup {39999, 40000, 44999, 45000, 49999, 50000, 60000}

\* A caller evaluates the budget against a period spending
check_threshold_call ==
    /\ \E s \in Spendings :
          evaluations' =
              (IF evaluations = <<>> THEN <<>> ELSE <<evaluations[Len(evaluations)]>>)
              \o <<[spending |-> s, outcome |-> check_threshold(budget, s)]>>
    /\ UNCHANGED <<budget, chainVars, otherVars>>

InitThresholdIdle ==
    /\ budget = [amount |-> 0, alert_threshold |-> DefaultAlertThreshold]
    /\ evaluations = <<>>

InitThreshold ==
    /\ budget \in Budgets
    /\ evaluations = <<>>

InitChainIdle ==
    /\ keywords = <<>>
    /\ merchants = <<>>
    /\ ranges = <<>>
    /\ llm_adapter = NoAdapter
    /\ rule_strategies = <<>>
    /\ llm_strategy = NoStrategy
    /\ instantiated = {}
    /\ next_handler = [h \in Handlers |-> NoHandler]
    /\ head = NoHandler
    /\ rule_handler = [shared |-> FALSE, own |-> <<>>]
    /\ ai_llm_strategy = NoStrategy
    /\ stage = "IDLE"
    /\ txn = NoTxn
    /\ result = Absent
    /\ process_log = <<>>
    /\ classify_calls = 0
    /\ returned = 0
    /\ raised = FALSE

(***************************************************************************)
(* Budget alert subscriber (observer.py) and the alert factory             *)
(* (factory.py)                                                            *)
(***************************************************************************)
\* The category the repository holds `budget` for
BudgetCategory == "cat_food"

\* Budget.budget_id of `budget`
BudgetId == "budget_1"

NoEvent == [kind |-> "no_event"]

EventKinds == {"created", "updated", "deleted"}

\* The transactions the events carry: uncategorized, in the budget's
\* category, in a category without budget; expenses are negative amounts
EventTransactions ==
    [category_id : {Null, BudgetCategory, "cat_other"}, amount : {-4, -1}]

\* BudgetAlert(budget_id, alert_type, message, current_spending, budget_limit, is_read)
BudgetAlert(t, msg, spending, limit) ==
    [budget_id |-> BudgetId, alert_type |-> t, message |-> msg,
     current_spending |-> spending, budget_limit |-> limit, is_read |-> FALSE]

\* BudgetAlert.message left at its default, the empty string
NoMessage == <<>>

\* str(n) for a natural number, one character per element
RECURSIVE Digits(_)
Digits(n) ==
    LET ch == <<"0", "1", "2", "3", "4", "5", "6", "7", "8", "9">>[(n % 10) + 1]
    IN  IF n < 10 THEN <<ch>> ELSE Append(Digits(n \div 10), ch)

\* f"{d:.2f}" for a Decimal of hundredths: sign, units, point, two places
Format2f(d) ==
    LET a == Abs(d)
    IN  (IF d < 0 THEN <<"-">> ELSE <<>>) \o Digits(a \div 100) \o <<".">>
        \o Digits((a % 100) \div 10) \o Digits(a % 10)

\* BudgetAlertFactory._create_warning_alert that states the overage
create_warning_alert_overage(b, spending, percentage) ==
    LET remaining == spending - b.amount
    IN  BudgetAlert(IF percentage = 90 THEN "WARNING_90" ELSE "WARNING_80",
                    <<"Budget warning: You've used ">> \o Digits(percentage)
                    \o <<"%", " of your budget. $">> \o Format2f(remaining)
                    \o <<" remaining.">>,
                    spending, b.amount)

\* BudgetAlertFactory._create_generic_alert that leaves the message empty
create_generic_alert_blank(b, spending) ==
    BudgetAlert("WARNING_80", NoMessage, spending, b.amount)

\* BudgetAlertFactory._create_exceeded_alert; the literal text of a message
\* is one element, a formatted number one element per character
create_exceeded_alert(b, spending) ==
    LET overage == spending - b.amount
    IN  BudgetAlert("EXCEEDED",
                    <<"Budget exceeded! You've spent $">> \o Format2f(spending)
                    \o <<" of your $">> \o Format2f(b.amount)
                    \o <<" budget ($">> \o Format2f(overage) \o <<" over).">>,
                    spending, b.amount)

\* BudgetAlertFactory._create_warning_alert
create_warning_alert(b, spending, percentage) ==
    LET remaining == b.amount - spending
    IN  BudgetAlert(IF percentage = 90 THEN "WARNING_90" ELSE "WARNING_80",
                    <<"Budget warning: You've used ">> \o Digits(percentage)
                    \o <<"%", " of your budget. $">> \o Format2f(remaining)
                    \o <<" remaining.">>,
                    spending, b.amount)

\* BudgetAlertFactory._create_generic_alert
create_generic_alert(b, spending) ==
    BudgetAlert("WARNING_80",
                <<"Budget update: Current spending is $">> \o Format2f(spending)
                \o <<" of $">> \o Format2f(b.amount),
                spending, b.amount)

\* BudgetAlertFactory.create_alert
create_alert(b, spending, alert_type) ==
    IF alert_type = "EXCEEDED" THEN create_exceeded_alert(b, spending)
    ELSE IF alert_type = "WARNING_90" THEN create_warning_alert(b, spending, 90)
    ELSE IF alert_type = "WARNING_80" THEN create_warning_alert(b, spending, 80)
    ELSE create_generic_alert(b, spending)

\* BudgetAlertObserver._get_budget_for_category: the repository's budget of
\* the category, or None (Absent) without repository or without such budget
get_budget_for_category(category_id) ==
    IF observer_cfg.budget_repository /\ category_id = BudgetCategory
    THEN budget
    ELSE Absent

\* BudgetAlertObserver._calculate_spending: returns Decimal("0.00")
calculate_spending(b) == 0

\* BudgetAlertObserver._create_alert whose fallback passes the limit where
\* the spending belongs
observer_create_alert_swapped(b, spending, alert_type) ==
    IF observer_cfg.alert_factory
    THEN create_alert(b, spending, alert_type)
    ELSE BudgetAlert(alert_type, NoMessage, b.amount, spending)

\* BudgetAlertObserver._create_alert
observer_create_alert(b, spending, alert_type) ==
    IF observer_cfg.alert_factory
    THEN create_alert(b, spending, alert_type)
    ELSE BudgetAlert(alert_type, NoMessage, spending, b.amount)

\* BudgetAlertObserver._send_notification: what the sink receives
send_notification(alert) ==
    IF observer_cfg.notification_service THEN <<alert>> ELSE <<>>

\* What one _check_budget_threshold call did
Checked(spending, created, sent) ==
    [computed_spending |-> spending, created |-> created, sent |-> sent]

\* _check_budget_threshold that creates the alert whatever the verdict
check_budget_threshold_unguarded(t) ==
    IF t.category_id \in {Null, ""}
    THEN Checked(<<>>, <<>>, <<>>)
    ELSE LET b == get_budget_for_category(t.category_id)
         IN  IF b = Absent
             THEN Checked(<<>>, <<>>, <<>>)
             ELSE LET current_spending == calculate_spending(b)
                      alert_type == check_threshold(b, current_spending).verdict
                      alert == observer_create_alert(b, current_spending, alert_type)
                  IN  Checked(<<current_spending>>, <<alert>>, send_notification(alert))

\* BudgetAlertObserver._check_budget_threshold
check_budget_threshold(t) ==
    IF t.category_id \in {Null, ""}
    THEN Checked(<<>>, <<>>, <<>>)
    ELSE LET b == get_budget_for_category(t.category_id)
         IN  IF b = Absent
             THEN Checked(<<>>, <<>>, <<>>)
             ELSE LET current_spending == calculate_spending(b)
                      alert_type == check_threshold(b, current_spending).verdict
                  IN  IF alert_type # NoAlert
                      THEN LET alert == observer_create_alert(b, current_spending, alert_type)
                           IN  Checked(<<current_spending>>, <<alert>>,
                                       send_notification(alert))
                      ELSE Checked(<<current_spending>>, <<>>, <<>>)

\* The subscriber handled one event; `after` is what the transactions of
\* the budget's category sum to once the event's change is stored
Handled(kind, t, chk, after) ==
    /\ events_handled < MaxEvents
    /\ after \in 0..MaxSpending
    /\ period_spending' = after
    /\ sink' = sink \o chk.sent
    /\ events_handled' = events_handled + 1
    /\ last_event' = [kind |-> kind, txn |-> t, spending_before |-> period_spending,
                      spending_after |-> after, computed |-> chk.computed_spending,
                      created |-> chk.created, sent |-> chk.sent, sink_before |-> sink]
    /\ UNCHANGED <<observer_cfg, chainVars, thresholdVars, busVars, rulesVars, history, entityVars>>

InBudgetCategory(t) == t.category_id = BudgetCategory

\* BudgetAlertObserver.on_transaction_created: a transaction was stored
on_transaction_created ==
    \E t \in EventTransactions :
        Handled("created", t, check_budget_threshold(t),
                IF InBudgetCategory(t) THEN period_spending + Abs(t.amount)
                ELSE period_spending)

\* BudgetAlertObserver.on_transaction_updated: a stored transaction was
\* edited; the edit left its amount or raised it by one cent
on_transaction_updated ==
    \E t \in EventTransactions, d \in {0, 1} :
        Handled("updated", t, check_budget_threshold(t),
                IF InBudgetCategory(t) THEN period_spending + d
                ELSE period_spending)

\* BudgetAlertObserver.on_transaction_deleted: a stored transaction was
\* removed; the handler does nothing
on_transaction_deleted ==
    \E t \in EventTransactions :
        /\ InBudgetCategory(t) => period_spending >= Abs(t.amount)
        /\ Handled("deleted", t, Checked(<<>>, <<>>, <<>>),
                   IF InBudgetCategory(t) THEN period_spending - Abs(t.amount)
                   ELSE period_spending)

\* The budgets the repository may hold
AlertBudgets ==
    {b \in Budgets : b.amount \in {0, MaxAmount}
                     /\ b.alert_threshold \in {0, DefaultAlertThreshold}}

InitAlertsIdle ==
    /\ observer_cfg = [budget_repository |-> FALSE, alert_factory |-> FALSE,
                       notification_service |-> FALSE]
    /\ period_spending = 0
    /\ sink = <<>>
    /\ events_handled = 0
    /\ last_event = NoEvent

\* BudgetAlertObserver.__init__: each collaborator given or left None
InitAlerts ==
    /\ observer_cfg \in [budget_repository : BOOLEAN, alert_factory : BOOLEAN,
                         notification_service : BOOLEAN]
    /\ period_spending = 0
    /\ sink = <<>>
    /\ events_handled = 0
    /\ last_event = NoEvent
    /\ budget \in AlertBudgets
    /\ evaluations = <<>>

(***************************************************************************)
(* Transaction event bus: TransactionSubject (observer.py)                 *)
(***************************************************************************)
\* The observer objects of the application
Observers == {"o1", "o2", "o3"}

\* What an observer's on_transaction_* handlers do when called
Behaviours == {"ok", "raises"}

\* The transactions the bus announces
BusTransactions ==
    {t \in EventTransactions : t.amount = -1 /\ t.category_id # "cat_other"}

\* `o in self._observers`
InList(s, o) == \E i \in 1..Len(s) : s[i] = o

\* list.remove(o): the list without the first occurrence of o; raises
\* ValueError when o is not in the list
list_remove(s, o) ==
    IF InList(s, o)
    THEN LET k == MinOf({i \in 1..Len(s) : s[i] = o})
         IN  [value |-> SubSeq(s, 1, k - 1) \o SubSeq(s, k + 1, Len(s)),
              raised |-> FALSE]
    ELSE [value |-> s, raised |-> TRUE]

\* No notify_* is running
Quiet == fanout.status # "NOTIFYING"

\* attach that appends without looking
attach_unguarded(o) ==
    /\ Quiet
    /\ observers' = Append(observers, o)
    /\ last_op' = [op |-> "attach", observer |-> o, before |-> observers,
                   raised |-> FALSE]
    /\ UNCHANGED <<behaviour, fanout, invoked, chainVars, thresholdVars, alertVars,
                   rulesVars, history, entityVars>>

\* TransactionSubject.attach
attach(o) ==
    /\ Quiet
    /\ observers' = IF ~InList(observers, o) THEN Append(observers, o) ELSE observers
    /\ last_op' = [op |-> "attach", observer |-> o, before |-> observers,
                   raised |-> FALSE]
    /\ UNCHANGED <<behaviour, fanout, invoked, chainVars, thresholdVars, alertVars,
                   rulesVars, history, entityVars>>

\* TransactionSubject.detach
detach(o) ==
    /\ Quiet
    /\ LET removed == IF InList(observers, o) THEN list_remove(observers, o)
                      ELSE [value |-> observers, raised |-> FALSE]
       IN  /\ observers' = removed.value
           /\ last_op' = [op |-> "detach", observer |-> o, before |-> observers,
                          raised |-> removed.raised]
    /\ UNCHANGED <<behaviour, fanout, invoked, chainVars, thresholdVars, alertVars,
                   rulesVars, history, entityVars>>

attach_call == \E o \in Observers : attach(o)

detach_call == \E o \in Observers : detach(o)

\* notify_* is entered: the for loop starts at the head of self._observers
Notify(kind) ==
    /\ Quiet
    /\ \E t \in BusTransactions :
          fanout' = [status |-> "NOTIFYING", kind |-> kind, txn |-> t,
                     position |-> 0, attached |-> observers, detached |-> {}]
    /\ invoked' = <<>>
    /\ UNCHANGED <<observers, behaviour, last_op, chainVars, thresholdVars, alertVars,
                   rulesVars, history, entityVars>>

\* TransactionSubject.notify_created
notify_created == Notify("created")

\* TransactionSubject.notify_updated
notify_updated == Notify("updated")

\* TransactionSubject.notify_deleted
notify_deleted == Notify("deleted")

\* One turn of `for observer in self._observers: observer.on_transaction_*(t)`:
\* the list iterator yields the element at its position, or the loop ends
\* and notify_* returns; an exception of the handler leaves notify_*.  A
\* handler may call detach(self) or attach(o3) on the subject it is called
\* from: the loop goes on over the list as the handler left it, and
\* fanout.detached collects who was detached meanwhile
notify_next ==
    /\ fanout.status = "NOTIFYING"
    /\ IF fanout.position < Len(observers)
       THEN LET observer == observers[fanout.position + 1]
            IN  /\ invoked' = Append(invoked, [observer |-> observer,
                                               handler |-> fanout.kind,
                                               txn |-> fanout.txn])
                /\ observers' =
                      CASE behaviour[observer] = "detaches_self" ->
                               list_remove(observers, observer).value
                        [] behaviour[observer] = "attaches_o3" ->
                               IF ~InList(observers, "o3")
                               THEN Append(observers, "o3") ELSE observers
                        [] OTHER -> observers
                /\ fanout' =
                      IF behaviour[observer] = "raises"
                      THEN [fanout EXCEPT !.status = "RAISED"]
                      ELSE [fanout EXCEPT
                               !.position = @ + 1,
                               !.detached = IF behaviour[observer] = "detaches_self"
                                            THEN @ \cup {observer} ELSE @]
       ELSE /\ fanout' = [fanout EXCEPT !.status = "RETURNED"]
            /\ UNCHANGED <<invoked, observers>>
    /\ UNCHANGED <<behaviour, last_op, chainVars, thresholdVars, alertVars,
                   rulesVars, history, entityVars>>

NoFanout == [status |-> "IDLE", kind |-> "none", txn |-> NoTxn, position |-> 0,
             attached |-> <<>>, detached |-> {}]

NoOp == [op |-> "none"]

InitBusIdle ==
    /\ observers = <<>>
    /\ behaviour = [o \in Observers |-> "ok"]
    /\ fanout = NoFanout
    /\ invoked = <<>>
    /\ last_op = NoOp

\* TransactionSubject.__init__; what each observer does is fixed
InitBus ==
    /\ observers = <<>>
    /\ behaviour \in [Observers -> Behaviours]
    /\ fanout = NoFanout
    /\ invoked = <<>>
    /\ last_op = NoOp

(***************************************************************************)
(* Rule loading and table iteration of the rule strategies (strategy.py),  *)
(* as two threads run them: one loads rules, one categorizes               *)
(***************************************************************************)
RuleStrategies == {"keyword", "merchant"}

\* CategorizationRule(rule_type, pattern, category_id, is_active)
CategorizationRule(type, pattern, c, active) ==
    [rule_type |-> type, pattern |-> pattern, category_id |-> c, is_active |-> active]

\* The rule lists the database hands to load_rules
RuleLists ==
    { << CategorizationRule("KEYWORD", <<"A", "b">>, "cat_kw", TRUE) >>,
      << CategorizationRule("KEYWORD", <<"A", "b">>, "cat_kw", FALSE) >>,
      << CategorizationRule("KEYWORD", <<"b">>, "cat_b", TRUE),
         CategorizationRule("KEYWORD", <<"A", "b">>, "cat_kw", TRUE) >>,
      << CategorizationRule("MERCHANT", <<"M">>, "cat_mer", TRUE),
         CategorizationRule("KEYWORD", <<"b">>, "cat_b", FALSE) >>,
      << CategorizationRule("MERCHANT", <<"M">>, "cat_mer", FALSE) >> }

\* The transactions categorized while rules are loaded
RuleTransactions == {t \in Transactions : Contains(Lower(t.merchant_name), <<"m">>)}

\* str(rule.category_id)
Str(c) == IF c = Null THEN "None" ELSE c

\* self.keywords / self.merchants of a strategy object
Table(s) == IF s = "keyword" THEN keywords ELSE merchants

\* RuleType a strategy's load_rules keeps
RuleTypeOf(s) == IF s = "keyword" THEN "KEYWORD" ELSE "MERCHANT"

\* The transaction text a strategy's categorize searches
TextOf(s, t) == IF s = "keyword" THEN Lower(t.description) ELSE Lower(t.merchant_name)

MethodOf(s) == IF s = "keyword" THEN "keyword_rule" ELSE "merchant_rule"

\* d[k] = v on an insertion-ordered dict: a present key keeps its place
DictSet(d, k, v) ==
    IF \E i \in 1..Len(d) : d[i].key = k
    THEN [i \in 1..Len(d) |-> IF d[i].key = k THEN [key |-> k, category_id |-> v]
                              ELSE d[i]]
    ELSE Append(d, [key |-> k, category_id |-> v])

\* The body of load_rules' loop for one rule
LoadRule(s, d, rule) ==
    IF rule.rule_type = RuleTypeOf(s) /\ rule.is_active
    THEN DictSet(d, Lower(rule.pattern), Str(rule.category_id))
    ELSE d

RECURSIVE load_rules_upto(_, _, _, _)
\* The dict after the first n turns of load_rules' loop
load_rules_upto(s, d, rules, n) ==
    IF n = 0 THEN d
    ELSE LoadRule(s, load_rules_upto(s, d, rules, n - 1), rules[n])

\* KeywordStrategy.load_rules / MerchantStrategy.load_rules run to its end
load_rules(s, d, rules) == load_rules_upto(s, d, rules, Len(rules))

NoLoad == [kind |-> "no_load"]

NoRead == [kind |-> "no_read"]

NoOutcome == [kind |-> "no_outcome"]

\* KeywordStrategy.load_rules / MerchantStrategy.load_rules is entered
load_rules_call ==
    /\ loading = NoLoad
    /\ \E s \in RuleStrategies, rules \in RuleLists :
          /\ loading' = [kind |-> "load", strategy |-> s, rules |-> rules,
                         position |-> 0, before |-> Table(s)]
          /\ loaded' = [loaded EXCEPT ![s] = rules]
    /\ reading' = IF reading = NoRead THEN reading
                  ELSE [reading EXCEPT !.overlapped = TRUE]
    /\ UNCHANGED <<keywords, merchants, cat_outcome>>
    /\ UNCHANGED <<ranges, llm_adapter, builtVars, walkVars, rule_strategies,
                   llm_strategy, thresholdVars, alertVars, busVars, history, entityVars>>

\* One turn of `for rule in rules`, or the loop ends and load_rules returns
load_rules_next ==
    /\ loading # NoLoad
    /\ IF loading.position < Len(loading.rules)
       THEN LET rule == loading.rules[loading.position + 1]
                d == LoadRule(loading.strategy, Table(loading.strategy), rule)
            IN  /\ keywords' = IF loading.strategy = "keyword" THEN d ELSE keywords
                /\ merchants' = IF loading.strategy = "merchant" THEN d ELSE merchants
                /\ loading' = [loading EXCEPT !.position = @ + 1]
       ELSE /\ loading' = NoLoad
            /\ UNCHANGED <<keywords, merchants>>
    /\ UNCHANGED <<loaded, reading, cat_outcome>>
    /\ UNCHANGED <<ranges, llm_adapter, builtVars, walkVars, rule_strategies,
                   llm_strategy, thresholdVars, alertVars, busVars, history, entityVars>>

\* KeywordStrategy.categorize / MerchantStrategy.categorize is entered: the
\* dict iterator is created and remembers the size of the dict
categorize_call ==
    /\ reading = NoRead
    /\ \E s \in RuleStrategies, t \in RuleTransactions :
          reading' = [kind |-> "read", strategy |-> s, txn |-> t, position |-> 0,
                      size |-> Len(Table(s)), overlapped |-> loading # NoLoad]
    /\ cat_outcome' = NoOutcome
    /\ UNCHANGED <<keywords, merchants, loaded, loading>>
    /\ UNCHANGED <<ranges, llm_adapter, builtVars, walkVars, rule_strategies,
                   llm_strategy, thresholdVars, alertVars, busVars, history, entityVars>>

\* What a categorize call came to
Categorized(value, key, error) ==
    [kind |-> "outcome", strategy |-> reading.strategy, txn |-> reading.txn,
     value |-> value, key |-> key, error |-> error,
     overlapped |-> reading.overlapped, rules |-> loaded[reading.strategy]]

\* One turn of `for keyword, category_id in self.keywords.items()`: the
\* iterator raises RuntimeError when the dict changed size since it was
\* created, ends the loop (return None) past the last entry, and else
\* yields the entry at its position, which is returned on a match
categorize_next ==
    /\ reading # NoRead
    /\ LET d == Table(reading.strategy)
       IN  IF Len(d) # reading.size
           THEN /\ cat_outcome' = Categorized(Absent, <<>>, TRUE)
                /\ reading' = NoRead
           ELSE IF reading.position >= Len(d)
           THEN /\ cat_outcome' = Categorized(Absent, <<>>, FALSE)
                /\ reading' = NoRead
           ELSE LET entry == d[reading.position + 1]
                IN  IF Contains(TextOf(reading.strategy, reading.txn), entry.key)
                    THEN /\ cat_outcome' =
                                Categorized(CategoryResult(entry.category_id, "HIGH",
                                                           MethodOf(reading.strategy), FALSE),
                                            entry.key, FALSE)
                         /\ reading' = NoRead
                    ELSE /\ reading' = [reading EXCEPT !.position = @ + 1]
                         /\ UNCHANGED cat_outcome
    /\ UNCHANGED <<keywords, merchants, loaded, loading>>
    /\ UNCHANGED <<ranges, llm_adapter, builtVars, walkVars, rule_strategies,
                   llm_strategy, thresholdVars, alertVars, busVars, history, entityVars>>

InitRulesIdle ==
    /\ loaded = [s \in RuleStrategies |-> <<>>]
    /\ loading = NoLoad
    /\ reading = NoRead
    /\ cat_outcome = NoOutcome

(***************************************************************************)
(* LLMStrategy called on its own (strategy.py)                             *)
(***************************************************************************)
\* LLMStrategy.set_adapter
set_adapter ==
    /\ llm_adapter' \in Adapters \ {llm_adapter}
    /\ UNCHANGED <<keywords, merchants, ranges, builtVars, walkVars, rule_strategies,
                   llm_strategy, thresholdVars, otherVars>>

\* A caller invokes LLMStrategy.categorize on a transaction
llm_categorize ==
    /\ \E t \in Transactions :
          LET r == LLMStrategy_categorize(t)
          IN  cat_outcome' = [kind |-> "outcome", strategy |-> "llm", txn |-> t,
                              adapter |-> llm_adapter, value |-> r.value,
                              calls |-> r.calls, raised |-> r.raised]
    /\ UNCHANGED <<chainVars, thresholdVars, alertVars, busVars, loaded, loading, reading,
                   history, entityVars>>

\* LLMStrategy.__init__(llm_adapter)
InitLLM ==
    /\ llm_adapter \in Adapters
    /\ keywords = <<>>
    /\ merchants = <<>>
    /\ ranges = <<>>
    /\ rule_strategies = <<>>
    /\ llm_strategy = NoStrategy
    /\ instantiated = {}
    /\ next_handler = [h \in Handlers |-> NoHandler]
    /\ head = NoHandler
    /\ rule_handler = [shared |-> FALSE, own |-> <<>>]
    /\ ai_llm_strategy = NoStrategy
    /\ stage = "IDLE"
    /\ txn = NoTxn
    /\ result = Absent
    /\ process_log = <<>>
    /\ classify_calls = 0
    /\ returned = 0
    /\ raised = FALSE

(***************************************************************************)
(* A built chain handling transactions again and again (chain.py)          *)
(***************************************************************************)
\* No handle() has returned yet
InitHistory == history = [t \in Transactions |-> NotYet]

\* The rule strategy lists the builders of the application are given
BuiltRuleStrategies ==
    { <<>>, <<"keyword", "merchant", "amount">>, <<"amount", "keyword">> }

\* The state build() leaves: the three handlers linked, the rule handler
\* holding the builder's strategies, the AI handler the builder's AI strategy
InitBuilt ==
    /\ keywords \in KeywordTables
    /\ merchants \in MerchantTables
    /\ ranges \in RangeTables
    /\ llm_adapter \in Adapters
    /\ rule_strategies \in BuiltRuleStrategies
    /\ llm_strategy \in {NoStrategy, "llm"}
    /\ instantiated = BuildHandlers
    /\ next_handler = BuildLinks
    /\ head = "RULE"
    /\ rule_handler = [shared |-> rule_strategies # <<>>, own |-> <<>>]
    /\ ai_llm_strategy = llm_strategy
    /\ stage = "IDLE"
    /\ txn = NoTxn
    /\ result = Absent
    /\ process_log = <<>>
    /\ classify_calls = 0
    /\ returned = 0
    /\ raised = FALSE

\* The caller takes the result and keeps what the first handle() of the
\* transaction came to; the chain is ready for the next transaction
handle_return_noted ==
    /\ stage = "DONE"
    /\ history' = IF history[txn] = NotYet
                  THEN [history EXCEPT ![txn] = [result |-> result,
                                                process_log |-> process_log,
                                                raised |-> raised]]
                  ELSE history
    /\ stage' = "IDLE"
    /\ txn' = NoTxn
    /\ result' = Absent
    /\ process_log' = <<>>
    /\ classify_calls' = 0
    /\ returned' = 0
    /\ raised' = FALSE
    /\ UNCHANGED <<rule_strategies, llm_strategy, tableVars, builtVars, thresholdVars,
                   alertVars, busVars, rulesVars, entityVars>>

(***************************************************************************)
(* Entities (models.py) and the collaborators called on their own          *)
(***************************************************************************)
NoCall == [op |-> "none"]

\* Nothing was called yet: no cache service, a Transaction() and an
\* Account() with the dataclass defaults
InitEntitiesIdle ==
    /\ last_call = NoCall
    /\ cache_service = FALSE
    /\ transaction = [category_id |-> Null, confidence |-> "LOW",
                      categorization_method |-> ""]
    /\ account = [balance |-> 0, state |-> "ACTIVE"]

\* BudgetAlertFactory().create_alert(budget, spending, alert_type) called on
\* its own; alert_type is an AlertType or None
create_alert_call ==
    /\ \E spending \in Spendings, t \in AlertTypes \cup {NoAlert} :
          last_call' = [op |-> "create_alert", budget |-> budget,
                        spending |-> spending, alert_type |-> t,
                        value |-> create_alert(budget, spending, t),
                        raised |-> FALSE]
    /\ UNCHANGED <<chainVars, thresholdVars, alertVars, busVars, rulesVars, history,
                   cache_service, transaction, account>>

(***************************************************************************)
(* The rule strategies filled and called on their own (strategy.py)        *)
(***************************************************************************)
MaxRanges == 2

\* KeywordStrategy.add_keyword
add_keyword ==
    /\ \E keyword \in {<<"A", "B">>, <<"a", "b">>, <<"B">>},
          category_id \in {"cat_kw", "cat_b"} :
          keywords' = DictSet(keywords, Lower(keyword), category_id)
    /\ UNCHANGED <<merchants, ranges, llm_adapter, rule_strategies, llm_strategy,
                   builtVars, walkVars, thresholdVars, otherVars>>

\* MerchantStrategy.add_merchant
add_merchant ==
    /\ \E merchant \in {<<"M">>, <<"m">>} :
          merchants' = DictSet(merchants, Lower(merchant), "cat_mer")
    /\ UNCHANGED <<keywords, ranges, llm_adapter, rule_strategies, llm_strategy,
                   builtVars, walkVars, thresholdVars, otherVars>>

\* AmountRangeStrategy.add_range
add_range ==
    /\ Len(ranges) < MaxRanges
    /\ \E r \in {[min |-> 100, max |-> 1000, category_id |-> "cat_amt"],
                 [min |-> 50, max |-> 100, category_id |-> "cat_low"]} :
          ranges' = Append(ranges, r)
    /\ UNCHANGED <<keywords, merchants, llm_adapter, rule_strategies, llm_strategy,
                   builtVars, walkVars, thresholdVars, otherVars>>

\* strategy.categorize(transaction) called on a rule strategy, for an
\* expense and for the income of the same amount
strategy_categorize ==
    /\ \E s \in {"keyword", "merchant", "amount"},
          t \in Transactions \cup {[u EXCEPT !.amount = -@] : u \in Transactions} :
          last_call' = [op |-> "categorize", strategy |-> s, transaction |-> t,
                        table |-> CASE s = "keyword" -> keywords
                                    [] s = "merchant" -> merchants
                                    [] s = "amount" -> ranges,
                        value |-> Strategy_categorize(s, t), raised |-> FALSE]
    /\ UNCHANGED <<chainVars, thresholdVars, alertVars, busVars, rulesVars, history,
                   cache_service, transaction, account>>

(***************************************************************************)
(* Cache invalidation subscriber (observer.py)                             *)
(***************************************************************************)
\* AnalyticsCacheObserver._invalidate_cache that skips the dashboard key of
\* a transaction without category
invalidate_cache_nested(t) ==
    IF cache_service
    THEN (IF t.category_id \notin {Null, ""}
          THEN <<<<"analytics:category:", t.category_id>>, <<"analytics:dashboard">>>>
          ELSE <<>>)
         \o (IF t.account_id \notin {Null, ""}
             THEN <<<<"analytics:account:", t.account_id>>>> ELSE <<>>)
    ELSE <<>>

\* AnalyticsCacheObserver._invalidate_cache: the keys handed to
\* cache_service.invalidate, in call order; None and the empty string are
\* the ids that are false in `if transaction.category_id`
invalidate_cache(t) ==
    IF cache_service
    THEN (IF t.category_id \notin {Null, ""}
          THEN <<<<"analytics:category:", t.category_id>>>> ELSE <<>>)
         \o (IF t.account_id \notin {Null, ""}
             THEN <<<<"analytics:account:", t.account_id>>>> ELSE <<>>)
         \o <<<<"analytics:dashboard">>>>
    ELSE <<>>

\* AnalyticsCacheObserver.on_transaction_created / _updated / _deleted
cache_on_transaction ==
    /\ \E kind \in EventKinds,
          t \in [category_id : {Null, "", BudgetCategory, "cat_other", "cat_rent"},
                 account_id : {Null, "", "acct_1", "acct_2"}] :
          last_call' = [op |-> "cache_event", kind |-> kind, transaction |-> t,
                        invalidated |-> invalidate_cache(t), raised |-> FALSE]
    /\ UNCHANGED <<chainVars, thresholdVars, alertVars, busVars, rulesVars, history,
                   cache_service, transaction, account>>

\* AnalyticsCacheObserver(cache_service), with or without a cache service
InitCache ==
    /\ InitChainIdle /\ InitThresholdIdle /\ InitAlertsIdle /\ InitBusIdle
    /\ InitRulesIdle /\ InitHistory
    /\ last_call = NoCall
    /\ cache_service \in BOOLEAN
    /\ transaction = [category_id |-> Null, confidence |-> "LOW",
                      categorization_method |-> ""]
    /\ account = [balance |-> 0, state |-> "ACTIVE"]

(***************************************************************************)
(* Transaction.categorize (models.py)                                      *)
(***************************************************************************)
\* One assignment of Transaction.categorize(category_id, confidence, method):
\* the call is entered and writes self.category_id, then self.confidence,
\* then self.categorization_method; another thread runs between them
Transaction_categorize ==
    /\ IF last_call.op = "Transaction.categorize" /\ last_call.pc = 1
       THEN /\ transaction' = [transaction EXCEPT !.confidence = last_call.confidence]
            /\ last_call' = [last_call EXCEPT !.pc = 2]
       ELSE IF last_call.op = "Transaction.categorize" /\ last_call.pc = 2
       THEN /\ transaction' = [transaction EXCEPT
                                  !.categorization_method = last_call.method]
            /\ last_call' = [last_call EXCEPT !.pc = 3]
       ELSE \E c \in {"cat_a", "cat_b"}, conf \in {"HIGH", "MEDIUM", "LOW"},
               m \in {"keyword_rule", "ai"} :
               /\ transaction' = [transaction EXCEPT !.category_id = c]
               /\ last_call' = [op |-> "Transaction.categorize", category_id |-> c,
                                confidence |-> conf, method |-> m, pc |-> 1]
    /\ UNCHANGED <<chainVars, thresholdVars, alertVars, busVars, rulesVars, history,
                   cache_service, account>>

(***************************************************************************)
(* Account (models.py)                                                     *)
(***************************************************************************)
MaxBalance == 4

\* Account.deposit(amount) with a positive amount; last_call.before is the
\* account as the call found it
deposit ==
    /\ \E amount \in 1..2 :
          IF account.state # "ACTIVE"
          THEN /\ last_call' = [op |-> "deposit", amount |-> amount, raised |-> TRUE,
                             before |-> account]
               /\ UNCHANGED account
          ELSE /\ account.balance + amount <= MaxBalance
               /\ account' = [account EXCEPT !.balance = @ + amount]
               /\ last_call' = [op |-> "deposit", amount |-> amount, raised |-> FALSE,
                             before |-> account]
    /\ UNCHANGED <<chainVars, thresholdVars, alertVars, busVars, rulesVars, history,
                   cache_service, transaction>>

\* Account.withdraw(amount) with a positive amount
withdraw ==
    /\ \E amount \in 1..2 :
          IF account.state # "ACTIVE"
          THEN /\ last_call' = [op |-> "withdraw", amount |-> amount, raised |-> TRUE,
                             before |-> account]
               /\ UNCHANGED account
          ELSE /\ account.balance - amount >= 0 - MaxBalance
               /\ account' = [balance |-> account.balance - amount,
                              state |-> IF account.balance - amount < 0
                                        THEN "OVERDRAWN" ELSE account.state]
               /\ last_call' = [op |-> "withdraw", amount |-> amount, raised |-> FALSE,
                             before |-> account]
    /\ UNCHANGED <<chainVars, thresholdVars, alertVars, busVars, rulesVars, history,
                   cache_service, transaction>>

\* Account.freeze()
freeze ==
    /\ account' = [account EXCEPT !.state = "FROZEN"]
    /\ last_call' = [op |-> "freeze", amount |-> 0, raised |-> FALSE,
                             before |-> account]
    /\ UNCHANGED <<chainVars, thresholdVars, alertVars, busVars, rulesVars, history,
                   cache_service, transaction>>

\* Account.unfreeze()
unfreeze ==
    /\ account' = IF account.state = "FROZEN"
                  THEN [account EXCEPT !.state = "ACTIVE"] ELSE account
    /\ last_call' = [op |-> "unfreeze", amount |-> 0, raised |-> FALSE,
                             before |-> account]
    /\ UNCHANGED <<chainVars, thresholdVars, alertVars, busVars, rulesVars, history,
                   cache_service, transaction>>

(***************************************************************************)
(* Specifications                                                          *)
(***************************************************************************)
InitOtherIdle == InitAlertsIdle /\ InitBusIdle /\ InitRulesIdle /\ InitHistory /\ InitEntitiesIdle

Init == InitChain /\ InitThresholdIdle /\ InitOtherIdle

Next ==
    \/ with_keyword_strategy
    \/ with_merchant_strategy
    \/ with_amount_strategy
    \/ with_llm_strategy
    \/ build
    \/ handle_call
    \/ handle
    \/ handle_return

\* The categorization chain
Spec == Init /\ [][Next]_vars

InitEvaluator == InitChainIdle /\ InitThreshold /\ InitOtherIdle

NextThreshold == check_threshold_call

\* The threshold evaluator
SpecThreshold == InitEvaluator /\ [][NextThreshold]_vars

InitSubscriber ==
    InitChainIdle /\ InitAlerts /\ InitBusIdle /\ InitRulesIdle /\ InitHistory /\ InitEntitiesIdle

NextAlerts ==
    \/ on_transaction_created
    \/ on_transaction_updated
    \/ on_transaction_deleted

\* The budget alert subscriber
SpecAlerts == InitSubscriber /\ [][NextAlerts]_vars

InitSubject ==
    /\ InitChainIdle /\ InitThresholdIdle /\ InitAlertsIdle /\ InitBus
    /\ InitRulesIdle /\ InitHistory /\ InitEntitiesIdle

NextBus ==
    \/ attach_call
    \/ detach_call
    \/ notify_created
    \/ notify_updated
    \/ notify_deleted
    \/ notify_next

\* The transaction event bus
SpecBus == InitSubject /\ [][NextBus]_vars

\* KeywordStrategy.__init__ / MerchantStrategy.__init__: empty tables
InitStrategies == InitChainIdle /\ InitThresholdIdle /\ InitOtherIdle

NextRules ==
    \/ load_rules_call
    \/ load_rules_next
    \/ categorize_call
    \/ categorize_next

\* The rule strategies under reload
SpecRules == InitStrategies /\ [][NextRules]_vars

InitLLMStrategy == InitLLM /\ InitThresholdIdle /\ InitOtherIdle

NextLLM ==
    \/ set_adapter
    \/ llm_categorize

\* The AI strategy
SpecLLM == InitLLMStrategy /\ [][NextLLM]_vars

InitRepeat ==
    /\ InitBuilt /\ InitThresholdIdle /\ InitAlertsIdle /\ InitBusIdle
    /\ InitRulesIdle /\ InitHistory /\ InitEntitiesIdle

NextRepeat ==
    \/ handle_call
    \/ handle
    \/ handle_return_noted

\* A built chain called repeatedly
SpecRepeat == InitRepeat /\ [][NextRepeat]_vars

\* A full chain over two-entry keyword tables, and a budget alert subscriber
InitPipeline ==
    /\ InitBuilt
    /\ Len(keywords) = 2
    /\ Len(rule_strategies) = 3
    /\ llm_strategy = "llm"
    /\ llm_adapter \in {a \in Adapters : a # NoAdapter /\ a.kind = "prediction"
                                         /\ a.category_id = "cat_ai"}
    /\ InitAlerts /\ InitBusIdle /\ InitRulesIdle /\ InitHistory /\ InitEntitiesIdle

NextPipeline ==
    \/ handle_call
    \/ handle
    \/ handle_return
    \/ on_transaction_created
    \/ on_transaction_updated
    \/ on_transaction_deleted

\* Categorization and budget alerts side by side
SpecPipeline == InitPipeline /\ [][NextPipeline]_vars

\* The alert factory called on its own
SpecFactory == InitEvaluator /\ [][create_alert_call]_vars

NextStrategies ==
    \/ add_keyword
    \/ add_merchant
    \/ add_range
    \/ strategy_categorize

\* The rule strategies filled by add_* and called one at a time
SpecStrategies == InitStrategies /\ [][NextStrategies]_vars

\* The cache invalidation subscriber
SpecCache == InitCache /\ [][cache_on_transaction]_vars

\* A Transaction being classified while other threads look at it
SpecTransaction == InitStrategies /\ [][Transaction_categorize]_vars

NextAccount ==
    \/ deposit
    \/ withdraw
    \/ freeze
    \/ unfreeze

\* An account, ACTIVE with balance 0 when opened
SpecAccount == InitStrategies /\ [][NextAccount]_vars

\* TransactionSubject.__init__; observers whose handlers return, detach
\* themselves from the subject, or attach o3 to it
InitReentrant ==
    /\ InitChainIdle /\ InitThresholdIdle /\ InitAlertsIdle
    /\ observers = <<>>
    /\ behaviour \in [Observers -> {"ok", "detaches_self", "attaches_o3"}]
    /\ fanout = NoFanout
    /\ invoked = <<>>
    /\ last_op = NoOp
    /\ InitRulesIdle /\ InitHistory /\ InitEntitiesIdle

\* The event bus with handlers that change the subscriptions
SpecReentrant == InitReentrant /\ [][NextBus]_vars

(***************************************************************************)
(* Properties of the categorization chain                                  *)
(***************************************************************************)
ChainOrder == <<"RULE", "AI", "MANUAL">>

LastProcess == process_log[Len(process_log)]

Visited == {process_log[i].handler : i \in 1..Len(process_log)}

\* No rule strategy of the chain yields a category for the transaction
NoRuleMatch ==
    \A i \in 1..Len(HandlerStrategies) :
        ~Truthy(Strategy_categorize(HandlerStrategies[i], txn))

\* The AI stage yields no category for the transaction
NoAICategory ==
    \/ ai_llm_strategy = NoStrategy
    \/ ~Truthy(LLMStrategy_categorize(txn).value)

\* The category ids a strategy's table holds
TableCategoryIds(s) ==
    CASE s = "keyword"  -> {keywords[i].category_id : i \in 1..Len(keywords)}
      [] s = "merchant" -> {merchants[i].category_id : i \in 1..Len(merchants)}
      [] s = "amount"   -> {ranges[i].category_id : i \in 1..Len(ranges)}

\* The category ids the chain's strategies hold or its adapter returns
ConfiguredCategoryIds ==
    UNION {TableCategoryIds(HandlerStrategies[i]) : i \in 1..Len(HandlerStrategies)}
    \cup (IF ai_llm_strategy # NoStrategy /\ llm_adapter.kind = "prediction"
          THEN {llm_adapter.category_id} ELSE {})

\* C1: for every transaction and every built chain, handle terminates with
\* exactly one terminal result: a running walk can always take its next step,
\* every step visits a stage not visited before (so at most three steps are
\* taken), the manual stage has no next handler and ends the walk, and the
\* finished walk has returned exactly one result and raised nothing.
C1_HandleTerminates ==
    /\ stage \in Handlers => ENABLED handle
    /\ stage \in Handlers => stage \notin Visited
    /\ \A i, j \in 1..Len(process_log) :
           i < j => process_log[i].handler # process_log[j].handler
    /\ head # NoHandler => next_handler["MANUAL"] = NoHandler
    /\ "MANUAL" \in Visited => stage = "DONE"
    /\ stage = "DONE" => returned = 1 /\ result # Absent /\ ~raised
    /\ stage # "DONE" => returned = 0 /\ result = Absent

C1_Witness ==
    /\ stage = "DONE"
    /\ Visited = Handlers
    /\ returned = 1
    /\ Len(rule_strategies) = MaxRuleStrategies
    /\ ai_llm_strategy # NoStrategy

\* C2: handle returns either a result whose non-null category_id is held by
\* a configured strategy or returned by the configured adapter, or a
\* manual-required result (category_id null, requires_manual true); no
\* failure escapes, also when the adapter raises.
C2_ResultFromConfigOrManual ==
    stage = "DONE" =>
        /\ ~raised
        /\ result # Absent
        /\ \/ result.category_id # Null /\ result.category_id \in ConfiguredCategoryIds
           \/ result.category_id = Null /\ result.requires_manual = TRUE

C2_Witness ==
    /\ stage = "DONE"
    /\ llm_adapter.kind = "raises"
    /\ classify_calls = 1
    /\ ~raised
    /\ result.category_id = Null
    /\ result.requires_manual = TRUE

\* C3: when no rule strategy matches and the AI stage yields no category,
\* handle returns requires_manual = true and category_id = null.
C3_Fallthrough ==
    (stage = "DONE" /\ NoRuleMatch /\ NoAICategory) =>
        /\ result # Absent
        /\ result.requires_manual = TRUE
        /\ result.category_id = Null

C3_Witness ==
    /\ stage = "DONE"
    /\ HandlerStrategies = <<>>
    /\ ai_llm_strategy = NoStrategy
    /\ result.requires_manual = TRUE
    /\ result.category_id = Null

\* C4: the manual stage's process always returns (null, requires_manual,
\* "manual_required"), and a walk that falls through the rule and AI stages
\* returns that manual-stage result, with method "manual_required".
C4_ManualResultReturned ==
    /\ \A t \in Transactions :
           ManualHandler_process(t).value =
               CategoryResult(Null, "LOW", "manual_required", TRUE)
    /\ (stage = "DONE" /\ "MANUAL" \in Visited) =>
           /\ result = LastProcess.value
           /\ result.method = "manual_required"

\* C5: handle invokes the stages in the order rule, AI, manual; it passes to
\* the next stage only after an absent or null-category process result,
\* stops at the first stage whose result carries a category and returns
\* exactly that result; after a rule-stage match classify is never called.
C5_StageOrder ==
    /\ Len(process_log) <= Len(ChainOrder)
    /\ \A i \in 1..Len(process_log) : process_log[i].handler = ChainOrder[i]
    /\ \A i \in 1..(Len(process_log) - 1) : ~Truthy(process_log[i].value)
    /\ stage \in Handlers =>
           /\ Len(process_log) < Len(ChainOrder)
           /\ stage = ChainOrder[Len(process_log) + 1]
           /\ process_log # <<>> => ~Truthy(LastProcess.value)
    /\ stage = "DONE" =>
           /\ process_log # <<>>
           /\ Truthy(LastProcess.value) => result = LastProcess.value
           /\ ~Truthy(LastProcess.value) => LastProcess.handler = "MANUAL"
    /\ classify_calls > 0 => Len(process_log) >= 2 /\ ~Truthy(process_log[1].value)

C5_Witness ==
    /\ stage = "DONE"
    /\ Len(process_log) = 1
    /\ Truthy(process_log[1].value)
    /\ result = process_log[1].value
    /\ ai_llm_strategy # NoStrategy
    /\ llm_adapter.kind = "prediction"
    /\ classify_calls = 0

ProducedResults ==
    {KeywordStrategy_categorize(txn), MerchantStrategy_categorize(txn),
     AmountRangeStrategy_categorize(txn), LLMStrategy_categorize(txn).value}
    \cup {process_log[i].value : i \in 1..Len(process_log)}
    \cup {result}

\* C7: every CategoryResult produced by a strategy, a stage or the chain has
\* requires_manual = true if and only if category_id = null.
C7_RequiresManualIffNull ==
    stage # "IDLE" =>
        \A r \in ProducedResults :
            r # Absent => (r.requires_manual = TRUE <=> r.category_id = Null)

(***************************************************************************)
(* Properties of the threshold evaluator                                   *)
(***************************************************************************)
Evaluated == {evaluations[i] : i \in 1..Len(evaluations)}

\* The verdict the severity bands give, in whole cents and hundredths
BandVerdict(amount, threshold, spending) ==
    IF spending >= amount THEN "EXCEEDED"
    ELSE IF 10 * spending >= 9 * amount THEN "WARNING_90"
    ELSE IF 100 * spending >= threshold * amount THEN "WARNING_80"
    ELSE NoAlert

Rank(v) ==
    CASE v = NoAlert      -> 0
      [] v = "WARNING_80" -> 1
      [] v = "WARNING_90" -> 2
      [] v = "EXCEEDED"   -> 3

\* C8: for amount > 0 and p = spending / amount, check_threshold returns
\* EXCEEDED if p >= 1.0, else WARNING_90 if p >= 0.9, else WARNING_80 if
\* p >= alert_threshold, else none, all inclusive; for amount 500.00 and
\* threshold 0.80: 399.99 -> none, 400 -> WARNING_80, 450 -> WARNING_90,
\* 500 -> EXCEEDED.
C8_ThresholdBands ==
    budget.amount > 0 =>
        \A e \in Evaluated :
            /\ ~e.outcome.error
            /\ e.outcome.verdict =
                   BandVerdict(budget.amount, budget.alert_threshold, e.spending)
            /\ (budget.amount = 50000 /\ budget.alert_threshold = 80) =>
                   /\ e.spending = 39999 => e.outcome.verdict = NoAlert
                   /\ e.spending = 40000 => e.outcome.verdict = "WARNING_80"
                   /\ e.spending = 45000 => e.outcome.verdict = "WARNING_90"
                   /\ e.spending = 50000 => e.outcome.verdict = "EXCEEDED"

C8_Witness ==
    /\ budget = [amount |-> 50000, alert_threshold |-> 80]
    /\ Len(evaluations) = 2
    /\ evaluations[1] = [spending |-> 40000,
                         outcome |-> Outcome("WARNING_80", TRUE, FALSE)]
    /\ evaluations[2] = [spending |-> 50000,
                         outcome |-> Outcome("EXCEEDED", TRUE, FALSE)]

\* C9: for amount <= 0 and every spending, check_threshold returns none,
\* evaluates no division and raises nothing.
C9_NonPositiveAmount ==
    budget.amount <= 0 =>
        \A e \in Evaluated :
            /\ e.outcome.verdict = NoAlert
            /\ ~e.outcome.divided
            /\ ~e.outcome.error

C9_Witness ==
    /\ budget.amount = 0
    /\ \E e \in Evaluated : e.spending > 0 /\ e.outcome.verdict = NoAlert

\* C10: for a fixed budget with amount > 0 and spendings s1 <= s2 the
\* verdict for s2 is at least as severe as the verdict for s1 (none <
\* WARNING_80 < WARNING_90 < EXCEEDED), and equal spendings get equal verdicts.
C10_Monotonic ==
    budget.amount > 0 =>
        \A e1, e2 \in Evaluated :
            /\ e1.spending <= e2.spending =>
                   Rank(e1.outcome.verdict) <= Rank(e2.outcome.verdict)
            /\ e1.spending = e2.spending => e1.outcome = e2.outcome

C10_Witness ==
    /\ budget.amount > 0
    /\ budget.alert_threshold = 95
    /\ Len(evaluations) = 2
    /\ evaluations[1].spending < evaluations[2].spending
    /\ evaluations[1].outcome.verdict = "WARNING_90"
    /\ evaluations[2].outcome.verdict = "WARNING_90"

(***************************************************************************)
(* Properties of the budget alert subscriber                               *)
(***************************************************************************)
\* The severity verdict of the budget for a period spending
PeriodVerdict(spending) == check_threshold(budget, spending).verdict

\* The last event is a created or updated event of the budget's category,
\* handled by a subscriber that has its repository and its sink
CrossingObserved ==
    /\ last_event.kind \in {"created", "updated"}
    /\ InBudgetCategory(last_event.txn)
    /\ observer_cfg.budget_repository
    /\ observer_cfg.notification_service

\* C11: over created/updated events of a category with a budget, the
\* subscriber dispatches exactly one new alert each time the period
\* spending crosses into a more severe band, and no additional alert for an
\* event after which the verdict is the same as after the previous event.
C11_OneAlertPerCrossing ==
    CrossingObserved =>
        LET before == PeriodVerdict(last_event.spending_before)
            after  == PeriodVerdict(last_event.spending_after)
        IN  /\ Rank(after) > Rank(before) => Len(last_event.sent) = 1
            /\ after = before => Len(last_event.sent) = 0

\* The conditions under which an event is to raise an alert
ShouldAlert ==
    /\ last_event.kind \in {"created", "updated"}
    /\ last_event.txn.category_id \notin {Null, ""}
    /\ get_budget_for_category(last_event.txn.category_id) # Absent
    /\ PeriodVerdict(calculate_spending(budget)) # NoAlert

\* C12 as stated: the subscriber creates an alert and sends exactly one
\* alert to the notification sink exactly when the event is created or
\* updated, the transaction has a category, the category has a budget and
\* the verdict for the recomputed spending is not none; otherwise it creates
\* nothing, sends nothing and retracts nothing.
C12_DispatchExactlyWhen ==
    last_event # NoEvent =>
        IF ShouldAlert
        THEN /\ Len(last_event.created) = 1
             /\ Len(last_event.sent) = 1
             /\ sink = last_event.sink_before \o last_event.sent
        ELSE /\ last_event.created = <<>>
             /\ last_event.sent = <<>>
             /\ sink = last_event.sink_before

\* C12 amended: under those conditions the subscriber creates exactly one
\* alert and, when a notification service is configured, sends that alert
\* to it exactly once (without one the alert is created and sent nowhere);
\* otherwise it creates nothing, sends nothing and retracts nothing.
C12_DispatchWhenSinkConfigured ==
    last_event # NoEvent =>
        IF ShouldAlert
        THEN /\ Len(last_event.created) = 1
             /\ last_event.created[1].alert_type = PeriodVerdict(last_event.computed[1])
             /\ last_event.sent =
                    (IF observer_cfg.notification_service
                     THEN last_event.created ELSE <<>>)
             /\ sink = last_event.sink_before \o last_event.sent
        ELSE /\ last_event.created = <<>>
             /\ last_event.sent = <<>>
             /\ sink = last_event.sink_before

C12_Witness ==
    /\ last_event # NoEvent
    /\ ShouldAlert
    /\ observer_cfg.notification_service
    /\ Len(last_event.sent) = 1
    /\ Len(sink) = MaxEvents

\* C28: every alert the budget alert subscriber hands to the notification
\* sink was built from the (budget, spending) pair that was evaluated: its
\* alert_type is budget.check_threshold(alert.current_spending), its
\* budget_limit is budget.amount and its budget_id is the budget's, with an
\* alert factory and with the subscriber's own fallback construction.
C28_AlertMatchesVerdict ==
    \A i \in 1..Len(sink) :
        /\ sink[i].alert_type = check_threshold(budget, sink[i].current_spending).verdict
        /\ sink[i].budget_limit = budget.amount
        /\ sink[i].budget_id = BudgetId

\* An alert built by the factory has reached the sink
C28_Witness ==
    /\ observer_cfg.alert_factory
    /\ Len(sink) >= 1
    /\ sink[Len(sink)].alert_type # NoAlert
    /\ sink[Len(sink)].message # NoMessage
    /\ last_event # NoEvent
    /\ last_event.sent = <<sink[Len(sink)]>>

\* An alert built by the subscriber's fallback has reached the sink
C28_FallbackReached ==
    /\ ~observer_cfg.alert_factory
    /\ Len(sink) >= 1
    /\ sink[1].message = NoMessage

(***************************************************************************)
(* Properties of the transaction event bus                                 *)
(***************************************************************************)
\* The most recent notify_* is over, by return or by exception
Finished == fanout.status \in {"RETURNED", "RAISED"}

\* The handler calls the most recent notify_* made on observer o
CallsTo(o) == Cardinality({i \in 1..Len(invoked) : invoked[i].observer = o})

\* One call of the matching handler with the event's transaction on each
\* observer attached when notify_* was called, in attachment order
ExpectedCalls ==
    [i \in 1..Len(fanout.attached) |->
        [observer |-> fanout.attached[i], handler |-> fanout.kind, txn |-> fanout.txn]]

\* C13: when a subscriber's handler raises during a fan-out, the failure is
\* isolated: it is not propagated out of notify_*, and every other attached
\* subscriber, those after the failing one included, is still invoked
\* exactly once for the event.
C13_FanoutIsolation ==
    Finished =>
        /\ fanout.status = "RETURNED"
        /\ \A i \in 1..Len(fanout.attached) : CallsTo(fanout.attached[i]) = 1

NoDuplicates(s) == \A i, j \in 1..Len(s) : s[i] = s[j] => i = j

\* C14: attach of an already attached observer and detach of an observer
\* that is not attached leave the observer list unchanged, neither raises,
\* the list never holds an observer twice, and an observer attached twice
\* receives one call per notify, not two.
C14_AttachDetachIdempotent ==
    /\ NoDuplicates(observers)
    /\ last_op.op = "attach" =>
           /\ ~last_op.raised
           /\ observers = IF InList(last_op.before, last_op.observer)
                          THEN last_op.before
                          ELSE last_op.before \o <<last_op.observer>>
    /\ last_op.op = "detach" =>
           /\ ~last_op.raised
           /\ ~InList(last_op.before, last_op.observer) => observers = last_op.before
           /\ ~InList(observers, last_op.observer)
    /\ \A o \in Observers : CallsTo(o) <= 1
    /\ fanout.status = "RETURNED" =>
           \A o \in Observers :
               CallsTo(o) = IF InList(fanout.attached, o) THEN 1 ELSE 0

C14_Witness ==
    /\ last_op.op = "attach"
    /\ InList(last_op.before, last_op.observer)
    /\ Len(observers) = 2
    /\ fanout.status = "RETURNED"
    /\ CallsTo(last_op.observer) = 1

\* C15: after any sequence of attach and detach calls, one notify_* calls
\* the matching handler of every currently attached observer exactly once
\* with the transaction, in attachment order, before notify_* is over.
C15_InOrderFanout ==
    Finished => invoked = ExpectedCalls

(***************************************************************************)
(* Properties of rule loading                                              *)
(***************************************************************************)
\* The lower-cased patterns that only inactive rules of the strategy's type
\* carry in a rule list
InactivePatterns(s, rules) ==
    LET OfType(active) ==
            {Lower(rules[i].pattern) :
                i \in {j \in 1..Len(rules) : /\ rules[j].rule_type = RuleTypeOf(s)
                                             /\ rules[j].is_active = active}}
    IN  OfType(FALSE) \ OfType(TRUE)

\* C16: after load_rules / a reload, no categorize result of KeywordStrategy
\* or MerchantStrategy is obtained through the pattern of a rule that is
\* inactive in the most recently loaded rule set.
C16_InactiveRuleNeverMatches ==
    (cat_outcome # NoOutcome /\ ~cat_outcome.overlapped /\ cat_outcome.value # Absent) =>
        cat_outcome.key \notin InactivePatterns(cat_outcome.strategy, cat_outcome.rules)

\* C17: a categorize that runs concurrently with a rule reload observes
\* either the complete table from before the reload or the complete table
\* from after it, never a half-updated table, and its iteration is never
\* disturbed by the table being mutated in place.
C17_AtomicSwap ==
    /\ (reading # NoRead /\ loading # NoLoad /\ reading.strategy = loading.strategy) =>
           Table(loading.strategy) \in
               {loading.before,
                load_rules(loading.strategy, loading.before, loading.rules)}
    /\ cat_outcome # NoOutcome => ~cat_outcome.error

(***************************************************************************)
(* Properties of the AI strategy                                           *)
(***************************************************************************)
\* The adapter of the call was configured, its classify completed and
\* returned a prediction whose score reaches 0.70
Accepted(a) ==
    /\ a # NoAdapter
    /\ a.kind = "prediction"
    /\ a.confidence >= 70

\* C18: LLMStrategy.categorize returns a result if and only if an adapter
\* is configured, its classify call completes without failure and the
\* returned score is >= the threshold 0.70 (inclusive); in every other case
\* it returns absent; it never propagates an error; every returned result
\* has confidence MEDIUM and method "llm" whatever the score, and carries
\* the predicted category.
C18_LLMDegradation ==
    (cat_outcome # NoOutcome /\ cat_outcome.strategy = "llm") =>
        /\ ~cat_outcome.raised
        /\ cat_outcome.value # Absent <=> Accepted(cat_outcome.adapter)
        /\ cat_outcome.value # Absent =>
               cat_outcome.value =
                   CategoryResult(cat_outcome.adapter.category_id, "MEDIUM", "llm", FALSE)
        /\ cat_outcome.calls = IF cat_outcome.adapter = NoAdapter THEN 0 ELSE 1

C18_Witness ==
    /\ cat_outcome # NoOutcome
    /\ cat_outcome.strategy = "llm"
    /\ cat_outcome.adapter # NoAdapter
    /\ cat_outcome.adapter.kind = "prediction"
    /\ cat_outcome.adapter.confidence = 70
    /\ cat_outcome.value # Absent
    /\ cat_outcome.value.confidence = "MEDIUM"
    /\ cat_outcome.value.method = "llm"

(***************************************************************************)
(* Properties of repeated categorization                                   *)
(***************************************************************************)
\* What the handle() that has just finished came to
ThisCall == [result |-> result, process_log |-> process_log, raised |-> raised]

C20_SideEffectFree ==
    [][/\ keywords' = keywords
       /\ merchants' = merchants
       /\ ranges' = ranges
       /\ budget' = budget
       /\ (txn # NoTxn /\ txn' # NoTxn) =>
              /\ txn'.category_id = txn.category_id
              /\ txn'.confidence = txn.confidence
              /\ txn'.categorization_method = txn.categorization_method]_vars

C20_Witness ==
    /\ stage = "DONE"
    /\ result.category_id = "cat_ai"
    /\ txn.category_id = Null
    /\ txn.categorization_method = ""
    /\ last_event # NoEvent
    /\ last_event.kind = "updated"
    /\ Len(sink) = 2
    /\ budget.amount = MaxAmount


(***************************************************************************)
(* Properties of the alert factory                                         *)
(***************************************************************************)
FactoryCall == last_call.op = "create_alert"

\* C21: for alert_type t in {EXCEEDED, WARNING_90, WARNING_80},
\* create_alert(budget, spending, t) returns a BudgetAlert with alert_type t,
\* current_spending = spending, budget_limit = budget.amount, the budget's id
\* and is_read false; the EXCEEDED message states the overage
\* spending - budget.amount, the spending and the limit (amount 500, spending
\* 600: it contains 100, 600.00 and 500.00), and a WARNING message states the
\* remaining budget.amount - spending and the literal 90% or 80% matching t.
C21_FactoryRendering ==
    (FactoryCall /\ last_call.alert_type \in AlertTypes) =>
        LET b == last_call.budget
            s == last_call.spending
            t == last_call.alert_type
            a == last_call.value
        IN  /\ ~last_call.raised
            /\ a.alert_type = t
            /\ a.current_spending = s
            /\ a.budget_limit = b.amount
            /\ a.budget_id = BudgetId
            /\ a.is_read = FALSE
            /\ t = "EXCEEDED" =>
                  /\ Contains(a.message, Format2f(s - b.amount) \o <<" over).">>)
                  /\ Contains(a.message, Format2f(s) \o <<" of your $">>)
                  /\ Contains(a.message, Format2f(b.amount) \o <<" budget ($">>)
            /\ (t = "EXCEEDED" /\ b.amount = SampleBudgetAmount /\ s = 60000) =>
                  /\ Contains(a.message, <<"1", "0", "0">>)
                  /\ Contains(a.message, <<"6", "0", "0", ".", "0", "0">>)
                  /\ Contains(a.message, <<"5", "0", "0", ".", "0", "0">>)
            /\ t = "WARNING_90" =>
                  /\ Contains(a.message, Format2f(b.amount - s) \o <<" remaining.">>)
                  /\ Contains(a.message, <<"9", "0", "%">>)
            /\ t = "WARNING_80" =>
                  /\ Contains(a.message, Format2f(b.amount - s) \o <<" remaining.">>)
                  /\ Contains(a.message, <<"8", "0", "%">>)

\* The scenario of the factory's test: amount 500.00, spending 600.00
C21_Witness ==
    /\ FactoryCall
    /\ last_call.alert_type = "EXCEEDED"
    /\ last_call.budget.amount = SampleBudgetAmount
    /\ last_call.spending = 60000
    /\ Contains(last_call.value.message,
                <<" budget ($", "1", "0", "0", ".", "0", "0", " over).">>)

\* C27: for an alert_type that is none of EXCEEDED, WARNING_90, WARNING_80
\* (None), create_alert does not fail: it returns a BudgetAlert carrying the
\* generic status message, with current_spending = spending and
\* budget_limit = budget.amount.
C27_GenericAlert ==
    (FactoryCall /\ last_call.alert_type \notin AlertTypes) =>
        LET b == last_call.budget
            s == last_call.spending
            a == last_call.value
        IN  /\ ~last_call.raised
            /\ a.message = <<"Budget update: Current spending is $">> \o Format2f(s)
                           \o <<" of $">> \o Format2f(b.amount)
            /\ a.current_spending = s
            /\ a.budget_limit = b.amount

C27_Witness ==
    /\ FactoryCall
    /\ last_call.alert_type = NoAlert
    /\ last_call.spending = 45000
    /\ Contains(last_call.value.message, <<"4", "5", "0", ".", "0", "0", " of $">>)

(***************************************************************************)
(* Properties of the rule strategies                                       *)
(***************************************************************************)
StrategyCall(s) == last_call.op = "categorize" /\ last_call.strategy = s

\* What the keyword / merchant contract asks of one call: stored keys are
\* lower-cased, a result is returned exactly when a stored key is a
\* substring of the lower-cased text, and it carries the category of the
\* first such key in insertion order with confidence HIGH and the method
TextContract(text, method) ==
    LET d == last_call.table
        v == last_call.value
        matches(i) == Contains(Lower(text), d[i].key)
    IN  /\ ~last_call.raised
        /\ \A i \in 1..Len(d) : d[i].key = Lower(d[i].key)
        /\ (v # Absent) <=> (\E i \in 1..Len(d) : matches(i))
        /\ v # Absent =>
              \E i \in 1..Len(d) :
                  /\ matches(i)
                  /\ \A j \in 1..(i - 1) : ~matches(j)
                  /\ v = CategoryResult(d[i].category_id, "HIGH", method, FALSE)

\* C22: KeywordStrategy.categorize returns a result if and only if a stored
\* (lower-cased) keyword is a substring of the lower-cased description; the
\* result has the category of the first matching keyword in insertion order,
\* confidence HIGH and method "keyword_rule"; otherwise it returns absent.
\* MerchantStrategy does the same over merchant_name with "merchant_rule".
C22_KeywordMerchantMatching ==
    /\ StrategyCall("keyword") =>
          TextContract(last_call.transaction.description, "keyword_rule")
    /\ StrategyCall("merchant") =>
          TextContract(last_call.transaction.merchant_name, "merchant_rule")

\* Description "ABx" against the keys "b" and "ab" stored in that order under
\* different categories: both match, the first one wins
C22_Witness ==
    /\ StrategyCall("keyword")
    /\ last_call.transaction.description = <<"A", "B", "x">>
    /\ Len(last_call.table) = 2
    /\ last_call.table[1].key = <<"b">>
    /\ last_call.table[2].key = <<"a", "b">>
    /\ last_call.table[1].category_id # last_call.table[2].category_id
    /\ last_call.value # Absent
    /\ last_call.value.category_id = last_call.table[1].category_id

\* C23: AmountRangeStrategy.categorize compares the absolute value of the
\* amount (an expense of -x and an income of +x classify alike) against the
\* ranges in insertion order and returns the category of the first range with
\* min <= |amount| <= max, both bounds inclusive, with confidence MEDIUM and
\* method "amount_rule"; it returns absent if no range encloses the value.
C23_AmountRangeMatching ==
    StrategyCall("amount") =>
        LET d == last_call.table
            v == last_call.value
            t == last_call.transaction
            x == IF t.amount < 0 THEN 0 - t.amount ELSE t.amount
            encloses(i) == d[i].min <= x /\ x <= d[i].max
        IN  /\ ~last_call.raised
            /\ (v # Absent) <=> (\E i \in 1..Len(d) : encloses(i))
            /\ v # Absent =>
                  \E i \in 1..Len(d) :
                      /\ encloses(i)
                      /\ \A j \in 1..(i - 1) : ~encloses(j)
                      /\ v = CategoryResult(d[i].category_id, "MEDIUM",
                                            "amount_rule", FALSE)
            /\ ranges = d =>
                  v = AmountRangeStrategy_categorize([t EXCEPT !.amount = 0 - @])

\* An income of 100 against the ranges 50..100 and 100..1000 added in that
\* order: 100 is the upper bound of the first and the lower of the second
C23_Witness ==
    /\ StrategyCall("amount")
    /\ last_call.transaction.amount = 100
    /\ Len(last_call.table) = 2
    /\ last_call.table[1].max = 100
    /\ last_call.table[2].min = 100
    /\ last_call.value # Absent
    /\ last_call.value.category_id = "cat_low"

\* C29: if a handler calls attach or detach on the subject while notify_*
\* is in progress, every observer that was attached when notify_* started
\* and is not itself detached is still invoked exactly once for that event,
\* and no observer is invoked twice.
C29_ReentrantFanout ==
    fanout.status = "RETURNED" =>
        /\ \A o \in Observers :
              (InList(fanout.attached, o) /\ o \notin fanout.detached) =>
                  CallsTo(o) = 1
        /\ \A o \in Observers : CallsTo(o) <= 1

\* The first of two observers detached itself and notify_* returned without
\* calling the second
C29_Skipped ==
    /\ fanout.status = "RETURNED"
    /\ fanout.attached = <<"o1", "o2">>
    /\ fanout.detached = {"o1"}
    /\ CallsTo("o1") = 1
    /\ CallsTo("o2") = 0

(***************************************************************************)
(* Properties of the rule stage                                            *)
(***************************************************************************)
RuleEntries == {i \in 1..Len(process_log) : process_log[i].handler = "RULE"}

\* The strategy results of the transaction being handled that `counts`
\* accepts decide the rule stage's entry e: the first of them is returned and
\* no later strategy is evaluated; without one, all are evaluated and the
\* stage returns absent
FirstOf(e, counts(_)) ==
    LET ss == e.strategies
        r(i) == Strategy_categorize(ss[i], txn)
        good == {i \in 1..Len(ss) : counts(r(i))}
    IN  IF good = {}
        THEN e.value = Absent /\ e.evaluated = ss
        ELSE /\ e.value = r(MinOf(good))
             /\ e.evaluated = SubSeq(ss, 1, MinOf(good))

NonAbsent(r) == r # Absent

\* C24 as stated: RuleBasedHandler.process evaluates its strategies in the
\* order they were added and returns the first non-absent result; strategies
\* after the first one that produced a result are not evaluated, and it
\* returns absent only if every strategy returned absent.
C24_FirstNonAbsent ==
    \A i \in RuleEntries : FirstOf(process_log[i], NonAbsent)

\* C24 amended: RuleBasedHandler.process evaluates its strategies in the
\* order they were added and returns the first result that carries a
\* category (category_id neither null nor empty); a result without category
\* is passed over like an absent one, strategies after the returned one are
\* not evaluated, and it returns absent exactly when no strategy returned a
\* result with a category.
C24_FirstCategorized ==
    \A i \in RuleEntries : FirstOf(process_log[i], Truthy)

\* Keyword before merchant, the keyword rule matching with a null category:
\* the merchant strategy is evaluated and its result returned
C24_Witness ==
    \E i \in RuleEntries :
        LET e == process_log[i]
        IN  /\ Len(e.strategies) >= 2
            /\ e.strategies[1] = "keyword"
            /\ e.strategies[2] = "merchant"
            /\ Strategy_categorize("keyword", txn) # Absent
            /\ Strategy_categorize("keyword", txn).category_id = Null
            /\ e.evaluated = <<"keyword", "merchant">>
            /\ e.value # Absent
            /\ e.value.category_id = "cat_mer"

(***************************************************************************)
(* Properties of the cache invalidation subscriber                         *)
(***************************************************************************)
CacheEvent == last_call.op = "cache_event"

\* How often the event's handler invalidated key k
Invalidations(k) ==
    Cardinality({i \in 1..Len(last_call.invalidated) : last_call.invalidated[i] = k})

\* C25 as stated: on every created, updated and deleted event, for any
\* transaction, the subscriber invalidates the analytics key of the
\* transaction's category, the key of its account and the dashboard key,
\* each once, and nothing else.
C25_InvalidatesAllThree ==
    CacheEvent =>
        LET t == last_call.transaction
        IN  /\ ~last_call.raised
            /\ Len(last_call.invalidated) = 3
            /\ Invalidations(<<"analytics:category:", t.category_id>>) = 1
            /\ Invalidations(<<"analytics:account:", t.account_id>>) = 1
            /\ Invalidations(<<"analytics:dashboard">>) = 1

\* C25 amended: on every created, updated and deleted event a subscriber
\* that holds a cache service invalidates the category key if the
\* transaction has a category, the account key if it has an account, and
\* the dashboard key in every case, each once and nothing else; a
\* subscriber without cache service invalidates nothing.
C25_InvalidatesWhatExists ==
    CacheEvent =>
        LET t == last_call.transaction
            has_category == t.category_id \notin {Null, ""}
            has_account == t.account_id \notin {Null, ""}
        IN  /\ ~last_call.raised
            /\ ~cache_service => last_call.invalidated = <<>>
            /\ cache_service =>
                  /\ Invalidations(<<"analytics:category:", t.category_id>>)
                        = IF has_category THEN 1 ELSE 0
                  /\ Invalidations(<<"analytics:account:", t.account_id>>)
                        = IF has_account THEN 1 ELSE 0
                  /\ Invalidations(<<"analytics:dashboard">>) = 1
                  /\ Len(last_call.invalidated)
                        = 1 + (IF has_category THEN 1 ELSE 0)
                            + (IF has_account THEN 1 ELSE 0)

\* A deleted event for a transaction with an account and no category, at a
\* subscriber with a cache service: two keys are invalidated
C25_Witness ==
    /\ CacheEvent
    /\ cache_service
    /\ last_call.kind = "deleted"
    /\ last_call.transaction.category_id = Null
    /\ last_call.transaction.account_id = "acct_1"
    /\ last_call.invalidated = <<<<"analytics:account:", "acct_1">>, <<"analytics:dashboard">>>>

(***************************************************************************)
(* Properties of the entities                                              *)
(***************************************************************************)
\* C30: starting from an ACTIVE account with balance >= 0, after any
\* sequence of deposit, withdraw (positive amounts), freeze and unfreeze, an
\* account in state ACTIVE has balance >= 0; deposit and withdraw on an
\* account that is not ACTIVE raise an error and leave balance and state
\* unchanged.
C30_ActiveNonNegative ==
    /\ account.state = "ACTIVE" => account.balance >= 0
    /\ (last_call.op \in {"deposit", "withdraw"}
            /\ last_call.before.state # "ACTIVE") =>
          last_call.raised /\ account = last_call.before

\* The second half of C30 alone: a deposit or withdraw on an account that is
\* not ACTIVE raises and changes nothing
C30_RefusedWhenNotActive ==
    (last_call.op \in {"deposit", "withdraw"} /\ last_call.before.state # "ACTIVE") =>
        last_call.raised /\ account = last_call.before

\* C26: in every state another thread can observe, a transaction whose
\* category_id is set has its confidence and categorization_method set by
\* the same classification: Transaction.categorize is one atomic update of
\* the three fields, and no state with only some of them written exists.
C26_AtomicClassification ==
    transaction.category_id # Null =>
        /\ last_call.op = "Transaction.categorize"
        /\ transaction.category_id = last_call.category_id
        /\ transaction.confidence = last_call.confidence
        /\ transaction.categorization_method = last_call.method

\* Between the first and the second assignment of the first classification
C26_Partial ==
    /\ last_call.op = "Transaction.categorize"
    /\ last_call.pc = 1
    /\ transaction.category_id = "cat_a"
    /\ transaction.categorization_method = ""

\* The chain build() returned
Built == head # NoHandler

\* C31: a chain returned by build() is a fixed snapshot: later with_*
\* calls on the same builder do not change its stage list, its rule
\* strategies, its AI strategy or the result of its rule stage for any
\* transaction, whether the builder held zero or more rule strategies at
\* build time.
C31_BuiltChainFixed ==
    [][Built =>
          /\ head' = head
          /\ next_handler' = next_handler
          /\ instantiated' = instantiated
          /\ ai_llm_strategy' = ai_llm_strategy
          /\ HandlerStrategies' = HandlerStrategies
          /\ \A t \in Transactions :
                RuleBasedHandler_process(t)' = RuleBasedHandler_process(t)]_vars

\* What does hold of C31: the stage list and the AI strategy of a built
\* chain never change, and neither do the rule strategies of a chain built
\* from a builder that held none
C31_FixedButSharedList ==
    [][Built =>
          /\ head' = head
          /\ next_handler' = next_handler
          /\ instantiated' = instantiated
          /\ ai_llm_strategy' = ai_llm_strategy
          /\ ~rule_handler.shared => HandlerStrategies' = HandlerStrategies]_vars

\* A chain built from a builder with one rule strategy holds two after a
\* later with_* call on the builder
C31_Grown ==
    /\ Built
    /\ rule_handler.shared
    /\ Len(HandlerStrategies) = 2
    /\ stage = "IDLE"

\* A chain built from an empty builder stays without rule strategies while
\* the builder has gained some and an AI strategy
C31_EmptyStays ==
    /\ Built
    /\ ~rule_handler.shared
    /\ HandlerStrategies = <<>>
    /\ Len(rule_strategies) = 2
    /\ llm_strategy = "llm"
    /\ ai_llm_strategy = NoStrategy
====
